---- MODULE Spec2Model ----
(***************************************************************************)
(* Model of the ProfessorSuhotro retrieval pipeline:                       *)
(*   - the similarity ranker's knee-point cutoff (shared/embeddings.ts),   *)
(*   - the markdown chunk assembler (scripts/lib/chunk-with-context.ts),   *)
(*   - the plain-text chunker (scripts/embed.ts),                          *)
(*   - the chunk database build and (de)serialization                      *)
(*     (scripts/lib/chunk-database.ts, shared/embeddings.ts),              *)
(*   - query-time search (scripts/lib/chunk-database.ts),                  *)
(*   - the corpus build command (scripts/embed.ts, scripts/lib/config.ts), *)
(*   - the paragraph splitter's sentence grouping and the block splitter   *)
(*     (scripts/lib/parse-semantic-blocks.ts),                             *)
(*   - the browser's database loader and search form (src/App.tsx),        *)
(*   - the download progress publisher (shared/progress.ts).               *)
(*                                                                         *)
(* Each component has its own specification over the shared variables; the *)
(* variables of the other components stay at their idle values.            *)
(*                                                                         *)
(* Array indices keep the source's 0-based values; TLA+ sequences are      *)
(* 1-based, so element i of a source array is seq[i + 1].                  *)
(***************************************************************************)
EXTENDS Integers, Sequences, FiniteSets, TLC

VARIABLES
    \* ranker (findBestResults)
    scores,         \* the unsorted similarity scores, in hundredths
    bestIndices,    \* the indices findBestResults returned
    kneePc,         \* "ready" | "done"
    \* markdown chunk assembler (chunkWithContext)
    blocks,         \* the blocks consumed so far, in document order
    headingStack,   \* Stack<HeadingDatum>.items, bottom first
    currentBlocks,  \* the open buffer
    overlapBlocks,  \* the overlap carried from the previous chunk
    chunks,         \* the FinalizedChunks emitted so far
    pc,             \* "loop" | "done" | "idle"
    \* plain-text chunker (processDocument)
    doc,            \* the file's characters
    textIdx,        \* how many segments of splitText(doc) were processed
    current,        \* the BasicChunk being filled
    textChunks,     \* the FinalizedChunks emitted so far
    textPc,         \* "loop" | "done" | "idle"
    \* chunk database (create, deserializeTensor, deserializeChunkDatabase)
    dbCall,         \* the call made and its arguments; op "none" before it
    dbResult,       \* what the call returned
    \* query-time search (ChunkDb.search)
    searchDb,       \* the loaded ChunkDatabase
    searches,       \* per call slot: the search call's position and locals
    returned,       \* the <<query, result>> pairs search calls returned
    \* corpus build (scripts/embed.ts main)
    outputFile,     \* the file at the configured output path
    builds,         \* per build process: main's position and locals
    writes,         \* the writes made to the output path, in order
    \* paragraph splitter (groupSentencesIntoChunks)
    sentences,      \* the sentences of the paragraph
    sentenceIdx,    \* how many sentences the loop has consumed
    sentenceCounts, \* what countTokens returned for each consumed sentence
    currentChunk,   \* the run being filled
    currentTokens,  \* the tokens of the run being filled
    sentenceChunks, \* the runs pushed so far
    groupPc,        \* "loop" | "done" | "idle"
    \* block splitter (splitRegularNodeIntoBlocks)
    splitCall,      \* the call's position and locals
    \* database loader (fetchDb)
    dbResultCache,  \* the cached promise's number, Null when cleared
    promises,       \* the promises doFetchDb made, by number
    fetches,        \* the response to each fetch issued
    fetchCalls,     \* what each fetchDb call returned
    \* search form (SearchForm, handleSearchFormSubmit)
    searchResult,   \* ProfessorContent's searchResult state
    uiEvents,       \* the submits and clears so far, with each submit's progress
    \* download progress publisher (shared/progress.ts)
    progressState,  \* the number of the current ProgressState object
    fileMaps,       \* the files Map of each ProgressState object made so far
    progressListeners, \* the subscribed listeners, in order
    returnedSnapshots, \* what getSnapshot returned, with the files seen then
    progressLog     \* the events handled, with the listeners each one called

kneeVars == <<scores, bestIndices, kneePc>>
chunkVars == <<blocks, headingStack, currentBlocks, overlapBlocks, chunks, pc>>
textVars == <<doc, textIdx, current, textChunks, textPc>>
vars == <<scores, bestIndices, kneePc,
          blocks, headingStack, currentBlocks, overlapBlocks, chunks, pc,
          doc, textIdx, current, textChunks, textPc, dbCall, dbResult,
          searchDb, searches, returned, outputFile, builds, writes,
          sentences, sentenceIdx, sentenceCounts, currentChunk, currentTokens,
          sentenceChunks, groupPc,
          splitCall,
          dbResultCache, promises, fetches, fetchCalls,
          searchResult, uiEvents,
          progressState, fileMaps, progressListeners, returnedSnapshots, progressLog>>
dbVars == <<dbCall, dbResult>>
searchVars == <<searchDb, searches, returned>>
buildVars == <<outputFile, builds, writes>>
groupVars == <<sentences, sentenceIdx, sentenceCounts, currentChunk, currentTokens, sentenceChunks, groupPc>>
splitVars == <<splitCall>>
fetchVars == <<dbResultCache, promises, fetches, fetchCalls>>
uiVars == <<searchResult, uiEvents>>
progressVars == <<progressState, fileMaps, progressListeners, returnedSnapshots, progressLog>>

\* for each component, the variables of all the others
kneeRest == <<chunkVars, textVars, dbVars, searchVars, buildVars, groupVars, splitVars, fetchVars, uiVars, progressVars>>
chunkRest == <<kneeVars, textVars, dbVars, searchVars, buildVars, groupVars, splitVars, fetchVars, uiVars, progressVars>>
textRest == <<kneeVars, chunkVars, dbVars, searchVars, buildVars, groupVars, splitVars, fetchVars, uiVars, progressVars>>
dbRest == <<kneeVars, chunkVars, textVars, searchVars, buildVars, groupVars, splitVars, fetchVars, uiVars, progressVars>>
searchRest == <<kneeVars, chunkVars, textVars, dbVars, buildVars, groupVars, splitVars, fetchVars, uiVars, progressVars>>
buildRest == <<kneeVars, chunkVars, textVars, dbVars, searchVars, groupVars, splitVars, fetchVars, uiVars, progressVars>>
groupRest == <<kneeVars, chunkVars, textVars, dbVars, searchVars, buildVars, splitVars, fetchVars, uiVars, progressVars>>
splitRest == <<kneeVars, chunkVars, textVars, dbVars, searchVars, buildVars, groupVars, fetchVars, uiVars, progressVars>>
fetchRest == <<kneeVars, chunkVars, textVars, dbVars, searchVars, buildVars, groupVars, splitVars, uiVars, progressVars>>
uiRest == <<kneeVars, chunkVars, textVars, dbVars, searchVars, buildVars, groupVars, splitVars, fetchVars, progressVars>>
progressRest == <<kneeVars, chunkVars, textVars, dbVars, searchVars, buildVars, groupVars, splitVars, fetchVars, uiVars>>

(***************************************************************************)
(* Generic helpers.                                                        *)
(***************************************************************************)
Abs(x) == IF x < 0 THEN -x ELSE x

RECURSIVE SumTokens(_)
\* blocks.reduce((sum, b) => sum + b.tokens, 0)
SumTokens(bs) ==
    IF bs = <<>> THEN 0 ELSE bs[1].tokens + SumTokens(Tail(bs))

SeqsUpTo(S, n) == UNION {[1..k -> S] : k \in 0..n}

KneeIdle == scores = <<>> /\ bestIndices = <<>> /\ kneePc = "idle"
ChunkIdle ==
    /\ blocks = <<>> /\ headingStack = <<>> /\ currentBlocks = <<>>
    /\ overlapBlocks = <<>> /\ chunks = <<>> /\ pc = "idle"
TextIdle ==
    /\ doc = <<>> /\ textIdx = 0 /\ current = <<>> /\ textChunks = <<>>
    /\ textPc = "idle"
DbIdle == dbCall = [op |-> "idle"] /\ dbResult = [op |-> "idle"]

\* for each component, the others being idle
SearchIdle == searchDb = <<>> /\ searches = <<>> /\ returned = {}

BuildIdle == outputFile = <<>> /\ builds = <<>> /\ writes = <<>>
GroupIdle ==
    /\ sentences = <<>> /\ sentenceIdx = 0 /\ sentenceCounts = <<>>
    /\ currentChunk = <<>> /\ currentTokens = 0 /\ sentenceChunks = <<>>
    /\ groupPc = "idle"

SplitIdle == splitCall = [pc |-> "idle"]

FetchIdle ==
    /\ dbResultCache = 0 /\ promises = <<>> /\ fetches = <<>>
    /\ fetchCalls = <<>>

UiIdle == searchResult = <<>> /\ uiEvents = <<>>

ProgressIdle == progressState = 0 /\ fileMaps = <<>> /\ progressListeners = <<>> /\ returnedSnapshots = {} /\ progressLog = <<>>

KneeRestIdle ==
    ChunkIdle /\ TextIdle /\ DbIdle /\ SearchIdle /\ BuildIdle /\ GroupIdle /\ SplitIdle /\ FetchIdle /\ UiIdle /\ ProgressIdle
ChunkRestIdle ==
    KneeIdle /\ TextIdle /\ DbIdle /\ SearchIdle /\ BuildIdle /\ GroupIdle /\ SplitIdle /\ FetchIdle /\ UiIdle /\ ProgressIdle
TextRestIdle ==
    KneeIdle /\ ChunkIdle /\ DbIdle /\ SearchIdle /\ BuildIdle /\ GroupIdle /\ SplitIdle /\ FetchIdle /\ UiIdle /\ ProgressIdle
DbRestIdle ==
    KneeIdle /\ ChunkIdle /\ TextIdle /\ SearchIdle /\ BuildIdle /\ GroupIdle /\ SplitIdle /\ FetchIdle /\ UiIdle /\ ProgressIdle
SearchRestIdle ==
    KneeIdle /\ ChunkIdle /\ TextIdle /\ DbIdle /\ BuildIdle /\ GroupIdle /\ SplitIdle /\ FetchIdle /\ UiIdle /\ ProgressIdle
BuildRestIdle ==
    KneeIdle /\ ChunkIdle /\ TextIdle /\ DbIdle /\ SearchIdle /\ GroupIdle /\ SplitIdle /\ FetchIdle /\ UiIdle /\ ProgressIdle
GroupRestIdle ==
    KneeIdle /\ ChunkIdle /\ TextIdle /\ DbIdle /\ SearchIdle /\ BuildIdle /\ SplitIdle /\ FetchIdle /\ UiIdle /\ ProgressIdle
SplitRestIdle ==
    KneeIdle /\ ChunkIdle /\ TextIdle /\ DbIdle /\ SearchIdle /\ BuildIdle /\ GroupIdle /\ FetchIdle /\ UiIdle /\ ProgressIdle
FetchRestIdle ==
    KneeIdle /\ ChunkIdle /\ TextIdle /\ DbIdle /\ SearchIdle /\ BuildIdle /\ GroupIdle /\ SplitIdle /\ UiIdle /\ ProgressIdle
UiRestIdle ==
    KneeIdle /\ ChunkIdle /\ TextIdle /\ DbIdle /\ SearchIdle /\ BuildIdle /\ GroupIdle /\ SplitIdle /\ FetchIdle /\ ProgressIdle
ProgressRestIdle ==
    KneeIdle /\ ChunkIdle /\ TextIdle /\ DbIdle /\ SearchIdle /\ BuildIdle /\ GroupIdle /\ SplitIdle /\ FetchIdle /\ UiIdle

(***************************************************************************)
(* The similarity ranker: findBestResults / findKneePoint.                 *)
(*                                                                         *)
(* Scores are integers (hundredths of the source's floats).  A distance is *)
(* the pair of the numerator and the squared denominator of the source's   *)
(* quotient, compared exactly; floating-point rounding is not modelled.    *)
(***************************************************************************)
MaxScores == 4

ScoreValues == {90, 85, 82, 30, 25, 20}

\* The worked example of the specification, 0.9 0.85 0.82 0.3 0.25 0.2.
KneeExample == <<90, 85, 82, 30, 25, 20>>

\* perfectly linear descending curves: start, start - step, ...
MaxLinear == 5

LinearCurves ==
    {[i \in 1..n |-> start - (i - 1) * step] :
        n \in 1..MaxLinear, start \in {90, 60}, step \in {0, 5, 10}}

ScoreInputs ==
    SeqsUpTo(ScoreValues, MaxScores) \cup {KneeExample} \cup LinearCurves

\* numerator / denominator of perpendicularDistance; y is in hundredths, so
\* the x differences are scaled by 100 in the denominator.
perpendicularDistance(point, lineStart, lineEnd) ==
    [num |-> Abs((lineEnd.x - lineStart.x) * (lineStart.y - point.y)
                 - (lineStart.x - point.x) * (lineEnd.y - lineStart.y)),
     den2 |-> (lineEnd.x - lineStart.x) * (lineEnd.x - lineStart.x) * 10000
              + (lineEnd.y - lineStart.y) * (lineEnd.y - lineStart.y)]

ZeroDistance == [num |-> 0, den2 |-> 1]

\* a > b for two distances a.num/sqrt(a.den2), b.num/sqrt(b.den2); within one
\* findKneePoint call every distance has the chord's denominator.
DistanceGreater(a, b) ==
    IF b.num = 0 THEN a.num > 0
    ELSE IF a.den2 = b.den2 THEN a.num > b.num
    ELSE a.num * a.num * b.den2 > b.num * b.num * a.den2

RECURSIVE KneeLoop(_, _, _, _)
\* for (let i = 1; i < n - 1; i++) { ... if (distance > maxDistance) ... }
KneeLoop(sorted, i, maxDistance, kneeIndex) ==
    LET n == Len(sorted)
        firstPoint == [x |-> 0, y |-> sorted[1]]
        lastPoint == [x |-> n - 1, y |-> sorted[n]]
        point == [x |-> i, y |-> sorted[i + 1]]
        distance == perpendicularDistance(point, firstPoint, lastPoint)
    IN  IF ~(i < n - 1) THEN kneeIndex
        ELSE IF DistanceGreater(distance, maxDistance)
             THEN KneeLoop(sorted, i + 1, distance, i)
             ELSE KneeLoop(sorted, i + 1, maxDistance, kneeIndex)

\* mutant: the knee itself is kept (cutoff one past the farthest point)
findKneePointInclusive(sorted) ==
    IF Len(sorted) <= 2 THEN Len(sorted)
    ELSE LET k == KneeLoop(sorted, 1, ZeroDistance, Len(sorted))
         IN  IF k < Len(sorted) THEN k + 1 ELSE k

\* mutant: no knee found yields 0 instead of n
findKneePointZeroDefault(sorted) ==
    IF Len(sorted) <= 2 THEN Len(sorted)
    ELSE KneeLoop(sorted, 1, ZeroDistance, 0)

findKneePoint(sorted) ==
    IF Len(sorted) <= 2 THEN Len(sorted)
    ELSE KneeLoop(sorted, 1, ZeroDistance, Len(sorted))

RECURSIVE InsertDesc(_, _)
\* place item after every element it does not beat: a stable descending sort
InsertDesc(sorted, item) ==
    IF sorted = <<>> THEN <<item>>
    ELSE IF item.score - sorted[1].score > 0
         THEN <<item>> \o sorted
         ELSE <<sorted[1]>> \o InsertDesc(Tail(sorted), item)

\* mutant: the pairs are left in input order
SortDescKeepsOrder(indexed) == indexed

RECURSIVE SortDesc(_)
\* indexed.sort((a, b) => b.score - a.score)
SortDesc(indexed) ==
    IF indexed = <<>> THEN <<>>
    ELSE InsertDesc(SortDesc(SubSeq(indexed, 1, Len(indexed) - 1)),
                    indexed[Len(indexed)])

Indexed(ss) == [i \in 1..Len(ss) |-> [index |-> i - 1, score |-> ss[i]]]

SortedScores(ss) ==
    LET indexed == SortDesc(Indexed(ss))
    IN  [i \in 1..Len(indexed) |-> indexed[i].score]

Cutoff(ss) == findKneePoint(SortedScores(ss))

findBestResults(ss) ==
    LET indexed == SortDesc(Indexed(ss))
        cutoff == Cutoff(ss)
        top == SubSeq(indexed, 1, cutoff)
    IN  [i \in 1..Len(top) |-> top[i].index]

(***************************************************************************)
(* The markdown chunk assembler: chunkWithContext.                         *)
(*                                                                         *)
(* A SemanticBlock is [type, headingLevel, text, markdown, tokens];        *)
(* headingLevel is 0 for a block that is no heading (the field is absent   *)
(* in the source).  The block at document position i carries the text      *)
(* BlockText(i), so blocks are told apart by their text.  tokens is the    *)
(* tokenizer's cached answer for the block's text; the tokenizer is an     *)
(* external model, so its answers are inputs.                              *)
(***************************************************************************)
MAX_TOKENS == 200
OVERLAP_TOKENS == 20
HeadingLevelMax == 6

MaxBlocks == 3
MaxLevel == 3

\* token counts the tokenizer reports in the model: a small text, a text
\* that nearly fills a chunk, a text over both paths' limits
TokenChoices == {10, 190, 256}

ExampleTexts == <<"Intro", "Setup", "Usage">>

BlockText(i) ==
    IF i \in DOMAIN ExampleTexts THEN ExampleTexts[i] ELSE "t" \o ToString(i)

\* the sentences of a paragraph, and the counts the tokenizer reports for
\* a sentence in the model: the specification's 80, its complement to the
\* target, the target itself, and a sentence over the target
MaxSentences == 3

Sentence(i) == "s" \o ToString(i)

SentenceTexts == {Sentence(i) : i \in 1..MaxSentences}

SentenceTokenChoices == {80, 120, 200, 256}

\* countTokens(text): the number of input ids the tokenizer produces for the
\* text (tiktoken's count as fallback); any of the modelled counts
countTokens(text) ==
    IF text \in SentenceTexts THEN SentenceTokenChoices ELSE TokenChoices

RECURSIVE Hashes(_)
Hashes(level) == IF level = 0 THEN "" ELSE "#" \o Hashes(level - 1)

\* headingNodeToSemanticBlock at document position i
HeadingBlock(i, level, tokens) ==
    [type |-> "heading", headingLevel |-> level, text |-> BlockText(i),
     markdown |-> Hashes(level) \o " " \o BlockText(i) \o "\n",
     tokens |-> tokens]

\* splitRegularNodeIntoBlocks / splitOversizedBlock's unsplit result, at i
RegularBlock(i, tokens) ==
    [type |-> "paragraph", headingLevel |-> 0, text |-> BlockText(i),
     markdown |-> BlockText(i) \o "\n", tokens |-> tokens]

\* the blocks that may stand at document position i
BlocksAt(i) ==
    {HeadingBlock(i, l, t) : l \in 1..MaxLevel, t \in countTokens(BlockText(i))}
        \cup {RegularBlock(i, t) : t \in countTokens(BlockText(i))}

isHeading(semanticBlock) == semanticBlock.type = "heading"

\* immutable-stack.ts; a stack is its items, bottom first
Undefined == [undefined |-> TRUE]

StackCreate == <<>>

StackPush(stack, item) == Append(stack, item)

StackPop(stack) ==
    IF Len(stack) = 0 THEN [item |-> Undefined, stack |-> stack]
    ELSE [item |-> stack[Len(stack)],
          stack |-> SubSeq(stack, 1, Len(stack) - 1)]

StackPeek(stack) == IF Len(stack) = 0 THEN Undefined ELSE stack[Len(stack)]

RECURSIVE PopWhile(_, _)
\* while (peek(headings) && peek(headings).level >= level) headings = pop(...)
PopWhile(headings, level) ==
    IF StackPeek(headings) # Undefined /\ StackPeek(headings).level >= level
    THEN PopWhile(StackPop(headings).stack, level)
    ELSE headings

\* mutant: a heading of the same level is kept below the new one
updateHeadingStackKeepsEqual(headings, heading) ==
    LET RECURSIVE PopDeeper(_)
        PopDeeper(hs) ==
            IF StackPeek(hs) # Undefined
               /\ StackPeek(hs).level > heading.headingLevel
            THEN PopDeeper(StackPop(hs).stack)
            ELSE hs
    IN  StackPush(PopDeeper(headings),
                  [text |-> heading.text, level |-> heading.headingLevel])

\* mutant: at most one entry is popped
updateHeadingStackPopsOnce(headings, heading) ==
    LET popped ==
            IF StackPeek(headings) # Undefined
               /\ StackPeek(headings).level >= heading.headingLevel
            THEN StackPop(headings).stack
            ELSE headings
    IN  StackPush(popped,
                  [text |-> heading.text, level |-> heading.headingLevel])

updateHeadingStack(headings, heading) ==
    StackPush(PopWhile(headings, heading.headingLevel),
              [text |-> heading.text, level |-> heading.headingLevel])

RECURSIVE OverlapLoop(_, _, _, _)
\* for (i = blocks.length - 1; i >= 0; i--) { if (fits) unshift else break }
OverlapLoop(bs, i, overlap, tokens) ==
    IF ~(i >= 0) THEN overlap
    ELSE LET block == bs[i + 1]
         IN  IF tokens + block.tokens <= OVERLAP_TOKENS
             THEN OverlapLoop(bs, i - 1, <<block>> \o overlap,
                              tokens + block.tokens)
             ELSE overlap

\* mutant: the last block is always carried over, whatever its size
calculateOverlapAtLeastOne(bs) ==
    LET RECURSIVE Loop(_, _, _)
        Loop(i, overlap, tokens) ==
            IF ~(i >= 0) THEN overlap
            ELSE LET block == bs[i + 1]
                 IN  IF tokens > 0 /\ tokens + block.tokens > OVERLAP_TOKENS
                     THEN overlap
                     ELSE Loop(i - 1, <<block>> \o overlap,
                               tokens + block.tokens)
    IN  Loop(Len(bs) - 1, <<>>, 0)

calculateOverlap(bs) == OverlapLoop(bs, Len(bs) - 1, <<>>, 0)

RECURSIVE Join(_, _)
\* Array.prototype.join on strings
Join(parts, sep) ==
    IF parts = <<>> THEN ""
    ELSE IF Len(parts) = 1 THEN parts[1]
    ELSE parts[1] \o sep \o Join(Tail(parts), sep)

Texts(bs) == [i \in 1..Len(bs) |-> bs[i].text]
Markdowns(bs) == [i \in 1..Len(bs) |-> bs[i].markdown]

\* the text finalizeChunk embeds: breadcrumb, overlap, main content
TextWithContext(bs, overlap, headings) ==
    LET headingPath == [i \in 1..Len(headings) |-> headings[i].text]
        breadcrumb ==
            IF Len(headingPath) > 0
            THEN <<"# " \o Join(headingPath, " > ")>> ELSE <<>>
        overlapPart ==
            IF Len(overlap) > 0 THEN <<Join(Texts(overlap), "\n\n")>> ELSE <<>>
    IN  Join(breadcrumb \o overlapPart \o <<Join(Texts(bs), "\n\n")>>, "\n\n")

\* finalizeChunk; totalTokens is countTokens' answer for the composed text.
\* blocks and overlap record the two buffers the chunk was built from; work,
\* title and the random id are carried through unchanged and left out.
finalizeChunk(bs, overlap, headings, totalTokens) ==
    LET markdownParts ==
            (IF Len(overlap) > 0
             THEN <<Join(Markdowns(overlap), "\n")>> ELSE <<>>)
            \o <<Join(Markdowns(bs), "\n")>>
    IN  [headingPath |-> [i \in 1..Len(headings) |-> headings[i].text],
         totalTokens |-> totalTokens,
         rawText |-> TextWithContext(bs, overlap, headings),
         markdownText |-> Join(markdownParts, "\n"),
         blocks |-> bs,
         overlap |-> overlap]

ChunkInit ==
    /\ blocks = <<>>
    /\ headingStack = StackCreate
    /\ currentBlocks = <<>>
    /\ overlapBlocks = <<>>
    /\ chunks = <<>>
    /\ pc = "loop"
    /\ ChunkRestIdle

\* the heading stack after lines 98-100 for the block
StackFor(block) ==
    IF isHeading(block) THEN updateHeadingStack(headingStack, block)
    ELSE headingStack

\* mutant: only the open buffer's own tokens are compared with the limit
wouldExceedBufferOnly(block) == SumTokens(currentBlocks) > MAX_TOKENS

wouldExceed(block) == SumTokens(currentBlocks) + block.tokens > MAX_TOKENS

\* one loop iteration in which the open buffer is finalized first
ConsumeAndFlush ==
    /\ pc = "loop"
    /\ Len(blocks) < MaxBlocks
    /\ \E block \in BlocksAt(Len(blocks) + 1) :
        /\ Len(currentBlocks) > 0 /\ wouldExceed(block)
        /\ \E totalTokens \in
                countTokens(TextWithContext(currentBlocks, overlapBlocks,
                                            StackFor(block))) :
            chunks' = Append(chunks,
                             finalizeChunk(currentBlocks, overlapBlocks,
                                           StackFor(block), totalTokens))
        /\ headingStack' = StackFor(block)
        /\ overlapBlocks' = calculateOverlap(currentBlocks)
        /\ currentBlocks' = <<block>>
        /\ blocks' = Append(blocks, block)
    /\ UNCHANGED <<pc, chunkRest>>

\* one loop iteration in which the block joins the open buffer
ConsumeAndAppend ==
    /\ pc = "loop"
    /\ Len(blocks) < MaxBlocks
    /\ \E block \in BlocksAt(Len(blocks) + 1) :
        /\ ~(Len(currentBlocks) > 0 /\ wouldExceed(block))
        /\ headingStack' = StackFor(block)
        /\ currentBlocks' = Append(currentBlocks, block)
        /\ blocks' = Append(blocks, block)
    /\ UNCHANGED <<overlapBlocks, chunks, pc, chunkRest>>

\* mutant: the remaining buffer is not finalized
FinishDropsRemainder ==
    /\ pc = "loop"
    /\ pc' = "done"
    /\ UNCHANGED <<blocks, headingStack, currentBlocks, overlapBlocks, chunks,
                   chunkRest>>

\* the input ends: finalize the remaining blocks and return
Finish ==
    /\ pc = "loop"
    /\ IF Len(currentBlocks) > 0
       THEN \E totalTokens \in
                countTokens(TextWithContext(currentBlocks, overlapBlocks,
                                            headingStack)) :
                chunks' = Append(chunks,
                                 finalizeChunk(currentBlocks, overlapBlocks,
                                               headingStack, totalTokens))
       ELSE chunks' = chunks
    /\ pc' = "done"
    /\ UNCHANGED <<blocks, headingStack, currentBlocks, overlapBlocks,
                   chunkRest>>

ChunkNext == ConsumeAndFlush \/ ConsumeAndAppend \/ Finish

SpecChunk == ChunkInit /\ [][ChunkNext]_vars

KneeInit ==
    /\ scores \in ScoreInputs
    /\ bestIndices = <<>>
    /\ kneePc = "ready"
    /\ KneeRestIdle

FindBest ==
    /\ kneePc = "ready"
    /\ bestIndices' = findBestResults(scores)
    /\ kneePc' = "done"
    /\ UNCHANGED <<scores, kneeRest>>

KneeNext == FindBest

SpecKnee == KneeInit /\ [][KneeNext]_vars

\* C1 as the specification states it: on the worked example the cutoff is 3
\* and the three highest scores' indices 0, 1, 2 are returned.
C1_CutoffThree ==
    (kneePc = "done" /\ scores = KneeExample)
        => (Cutoff(scores) = 3 /\ bestIndices = <<0, 1, 2>>)

\* C1 amended: on the worked example 0.9 0.85 0.82 0.3 0.25 0.2 the interior
\* point farthest from the chord is rank 2 (0.82), so the cutoff is 2 and
\* findBestResults returns exactly the indices of the two highest scores
\* (0.9, 0.85), in descending score order.
C1_CutoffTwo ==
    (kneePc = "done" /\ scores = KneeExample)
        => (Cutoff(scores) = 2 /\ bestIndices = <<0, 1>>)

C1_Witness ==
    kneePc = "done" /\ scores = KneeExample /\ Len(bestIndices) = 2


\* every interior point of the sorted curve lies on the chord from the first
\* to the last point
Linear(sorted) ==
    LET n == Len(sorted)
    IN  \A i \in 1..(n - 2) :
            (n - 1) * (sorted[i + 1] - sorted[1]) = i * (sorted[n] - sorted[1])

\* C14: for a perfectly linear descending score curve of N >= 1 entries the
\* knee-point cutoff lies in [1, N], so findBestResults returns at least one
\* and at most N indices.
C14_LinearCutoffInRange ==
    (kneePc = "done" /\ Len(scores) >= 1 /\ Linear(SortedScores(scores)))
        => /\ Cutoff(scores) \in 1..Len(scores)
           /\ Len(bestIndices) \in 1..Len(scores)

\* a strictly descending line of five scores was ranked
C14_Witness ==
    /\ kneePc = "done"
    /\ Len(scores) = 5
    /\ Linear(SortedScores(scores))
    /\ scores[1] > scores[5]
    /\ Len(bestIndices) = 5


\* C15: for N <= 2 scores (N = 0, 1 or 2) findBestResults returns all N
\* indices, sorted by descending score; no knee-point cutoff is applied.
C15_ShortInputsReturnedWhole ==
    (kneePc = "done" /\ Len(scores) <= 2)
        => /\ Cutoff(scores) = Len(scores)
           /\ Len(bestIndices) = Len(scores)
           /\ {bestIndices[i] : i \in 1..Len(bestIndices)}
                = 0..(Len(scores) - 1)
           /\ \A i \in 1..(Len(bestIndices) - 1) :
                scores[bestIndices[i] + 1] >= scores[bestIndices[i + 1] + 1]

\* two scores given in ascending order came back in descending order
C15_Witness ==
    /\ kneePc = "done"
    /\ Len(scores) = 2
    /\ scores[1] < scores[2]
    /\ bestIndices = <<1, 0>>

(***************************************************************************)
(* Properties of the chunk assembler.                                      *)
(***************************************************************************)
RECURSIVE ConcatMain(_)
\* the chunks' main buffers, concatenated in emission order
ConcatMain(cs) ==
    IF cs = <<>> THEN <<>> ELSE cs[1].blocks \o ConcatMain(Tail(cs))

\* the document position of the last block of chunk k's main buffer
LastPos(k) == Len(ConcatMain(SubSeq(chunks, 1, k)))

SetMax(S) == CHOOSE x \in S : \A y \in S : y <= x

RECURSIVE AncestorChain(_, _, _)
\* read off the source: the most recent heading at or before position upto
\* whose level is below the bound, preceded by that heading's own chain
AncestorChain(bs, upto, below) ==
    LET cands == {j \in 1..upto :
                    isHeading(bs[j]) /\ bs[j].headingLevel < below}
    IN  IF cands = {} THEN <<>>
        ELSE LET j == SetMax(cands)
             IN  AncestorChain(bs, j - 1, bs[j].headingLevel)
                 \o <<[text |-> bs[j].text, level |-> bs[j].headingLevel]>>

ChainAt(upto) == AncestorChain(blocks, upto, HeadingLevelMax + 1)

Occurrences(b) ==
    {kj \in (1..Len(chunks)) \X (1..MaxBlocks) :
        /\ kj[2] <= Len(chunks[kj[1]].blocks)
        /\ chunks[kj[1]].blocks[kj[2]] = b}

\* C2: chunkWithContext drops no block.  While the loop runs, the emitted
\* main buffers followed by the open buffer are the blocks consumed so far;
\* when it returns, the main buffers concatenated in emission order are the
\* input, every input block is in exactly one main buffer exactly once, and
\* a non-empty input has produced at least one chunk.
C2_NoBlockDropped ==
    /\ pc = "loop" => ConcatMain(chunks) \o currentBlocks = blocks
    /\ pc = "done" =>
        /\ ConcatMain(chunks) = blocks
        /\ \A i \in 1..Len(blocks) : Cardinality(Occurrences(blocks[i])) = 1
        /\ (blocks # <<>> => Len(chunks) >= 1)

C2_Witness ==
    /\ pc = "done" /\ Len(blocks) = 3 /\ Len(chunks) = 2
    /\ Len(chunks[2].blocks) = 2

\* ov is the overlap the claim describes for the main buffer main
IsOverlapOf(ov, main) ==
    LET m == Len(ov)
        n == Len(main)
    IN  /\ m <= n
        /\ ov = SubSeq(main, n - m + 1, n)
        /\ SumTokens(ov) <= OVERLAP_TOKENS
        /\ (m < n => SumTokens(ov) + main[n - m].tokens > OVERLAP_TOKENS)
        /\ (n > 0 /\ main[n].tokens > OVERLAP_TOKENS => ov = <<>>)

\* C4: the overlap carried into chunk k+1 is a contiguous suffix of whole
\* blocks of chunk k's main buffer with a token sum of at most
\* OVERLAP_TOKENS; it is maximal (the next earlier block, if there is one,
\* would push the sum over OVERLAP_TOKENS); it is empty when chunk k's last
\* block alone exceeds OVERLAP_TOKENS; and the first chunk has no overlap.
C4_OverlapInvariant ==
    /\ (chunks # <<>> => chunks[1].overlap = <<>>)
    /\ \A k \in 1..(Len(chunks) - 1) :
            IsOverlapOf(chunks[k + 1].overlap, chunks[k].blocks)
    /\ (chunks = <<>> => overlapBlocks = <<>>)

C4_Witness ==
    \E k \in 1..(Len(chunks) - 1) :
        /\ Len(chunks[k + 1].overlap) = 1
        /\ Len(chunks[k].blocks) = 2
        /\ chunks[k].blocks[1].tokens > OVERLAP_TOKENS

StrictlyIncreasingLevels(stack) ==
    \A i \in 1..(Len(stack) - 1) : stack[i].level < stack[i + 1].level

Last(seq) == seq[Len(seq)]

BelowLevel(stack, level) ==
    SelectSeq(stack, LAMBDA h : h.level < level)

\* C5: every step leaves the heading stack's levels strictly increasing from
\* bottom to top; a heading block replaces every entry of its level or
\* deeper by itself (the entries of smaller level stay, in order, below it)
\* and a block that is no heading leaves the stack unchanged.
C5_HeadingStackChain ==
    [][/\ StrictlyIncreasingLevels(headingStack')
       /\ (Len(blocks') > Len(blocks) /\ ~isHeading(Last(blocks'))
            => headingStack' = headingStack)
       /\ (Len(blocks') > Len(blocks) /\ isHeading(Last(blocks'))
            => headingStack' =
                 BelowLevel(headingStack, Last(blocks').headingLevel)
                 \o <<[text |-> Last(blocks').text,
                       level |-> Last(blocks').headingLevel]>>)]_vars

C5_Witness ==
    /\ Len(blocks) = 3
    /\ \A i \in 1..3 : isHeading(blocks[i])
    /\ blocks[2].headingLevel = blocks[3].headingLevel
    /\ Len(headingStack) = 2

\* C6: while block i is processed the heading stack is block i's
\* ancestor-heading chain in the source; for H1 "Intro", H2 "Setup",
\* H1 "Usage" the stack at "Usage" is exactly ["Usage"].
C6_StackIsAncestorChain ==
    /\ headingStack = ChainAt(Len(blocks))
    /\ (/\ Len(blocks) = 3
        /\ \A i \in 1..3 : isHeading(blocks[i])
        /\ <<blocks[1].headingLevel, blocks[2].headingLevel,
             blocks[3].headingLevel>> = <<1, 2, 1>>)
        => [i \in 1..Len(headingStack) |-> headingStack[i].text] = <<"Usage">>

C6_Witness ==
    /\ Len(blocks) = 3
    /\ \A i \in 1..3 : isHeading(blocks[i])
    /\ <<blocks[1].headingLevel, blocks[2].headingLevel,
         blocks[3].headingLevel>> = <<1, 2, 1>>
    /\ headingStack = <<[text |-> "Usage", level |-> 1]>>

\* C7: every emitted chunk's headingPath is the ancestor-heading chain at
\* the chunk's own position, the chain of the last block of its main buffer;
\* it holds no heading that stands in the source after that block.
C7_HeadingPathAtChunkPosition ==
    \A k \in 1..Len(chunks) :
        chunks[k].headingPath =
            [i \in 1..Len(ChainAt(LastPos(k))) |-> ChainAt(LastPos(k))[i].text]

\* C8: every chunk finalizeChunk produces has length(rawText) >= totalTokens.
C8_RawTextCoversTokens ==
    \A k \in 1..Len(chunks) : Len(chunks[k].rawText) >= chunks[k].totalTokens

\* C24: every emitted chunk has a non-empty main buffer whose block-token
\* sum is at most MAX_TOKENS or which is exactly one block; a block whose
\* own tokens exceed MAX_TOKENS is the only block of its chunk's main buffer.
C24_MainBufferWithinLimit ==
    \A k \in 1..Len(chunks) :
        LET main == chunks[k].blocks
        IN  /\ Len(main) >= 1
            /\ SumTokens(main) <= MAX_TOKENS \/ Len(main) = 1
            /\ \A i \in 1..Len(main) :
                   main[i].tokens > MAX_TOKENS => Len(main) = 1

\* an oversized block was emitted alone, after a chunk of two blocks that
\* fills the limit exactly
C24_Witness ==
    /\ Len(chunks) >= 2
    /\ Len(chunks[1].blocks) = 2
    /\ SumTokens(chunks[1].blocks) = MAX_TOKENS
    /\ Len(chunks[2].blocks) = 1
    /\ chunks[2].blocks[1].tokens > MAX_TOKENS

(***************************************************************************)
(* The plain-text chunker: processDocument (scripts/embed.ts).             *)
(*                                                                         *)
(* The file is a sequence of characters; splitText cuts it into strings.   *)
(***************************************************************************)
\* mutant: the plain-text path takes the markdown path's budget
TextBudgetOfMarkdownPath == MAX_TOKENS

TEXT_MAX_TOKENS == 256
TEXT_OVERLAP_TOKENS == 85

MaxDocLen == 7

Chars == {"a", "\n"}

Docs == SeqsUpTo(Chars, MaxDocLen)

RECURSIVE NewlineRun(_, _)
\* the number of consecutive newlines of text from position p on
NewlineRun(text, p) ==
    IF p <= Len(text) /\ text[p] = "\n" THEN 1 + NewlineRun(text, p + 1)
    ELSE 0

RECURSIVE Newlines(_)
Newlines(n) == IF n = 0 THEN "" ELSE "\n" \o Newlines(n - 1)

RECURSIVE SplitFrom(_, _, _)
\* text.split(/(\n\n+)/) from position p on, cur being the text since the
\* last separator: the texts and the captured separators, alternating
SplitFrom(text, p, cur) ==
    IF p > Len(text) THEN <<cur>>
    ELSE IF NewlineRun(text, p) >= 2
         THEN <<cur, Newlines(NewlineRun(text, p))>>
              \o SplitFrom(text, p + NewlineRun(text, p), "")
         ELSE SplitFrom(text, p + 1, cur \o text[p])

RECURSIVE SeparatorLoop(_, _)
\* for (let i = 0; i < parts.length; i += 2) { ... }
SeparatorLoop(parts, i) ==
    IF ~(i < Len(parts)) THEN <<>>
    ELSE LET thisText == parts[i + 1]
             sep == IF i + 1 < Len(parts) THEN parts[i + 2] ELSE ""
         IN  (IF thisText # "" THEN <<thisText \o sep>> ELSE <<>>)
             \o SeparatorLoop(parts, i + 2)

splitWithSeparators(text) == SeparatorLoop(SplitFrom(text, 1, ""), 0)

splitText(text) == splitWithSeparators(text)

emptyBasicChunk == [chunks |-> <<>>, tokenCounts |-> <<>>, totalTokens |-> 0]

RECURSIVE OverlapChunksLoop(_, _, _, _, _, _)
\* the backward loop of getOverlapChunks
OverlapChunksLoop(basicChunk, targetOverlap, i, accumulatedTokens, overlapChunks, overlapTokenCounts) ==
    IF ~(i >= 0)
       \/ (accumulatedTokens > 0
           /\ accumulatedTokens + basicChunk.tokenCounts[i + 1] > targetOverlap)
    THEN [chunks |-> overlapChunks, tokenCounts |-> overlapTokenCounts,
          totalTokens |-> accumulatedTokens]
    ELSE OverlapChunksLoop(basicChunk, targetOverlap, i - 1,
            accumulatedTokens + basicChunk.tokenCounts[i + 1],
            <<basicChunk.chunks[i + 1]>> \o overlapChunks,
            <<basicChunk.tokenCounts[i + 1]>> \o overlapTokenCounts)

\* mutant: the loop stops at the first segment over the target, an empty
\* overlap included
getOverlapChunksWithinTarget(basicChunk, targetOverlap) ==
    LET RECURSIVE Loop(_, _, _, _)
        Loop(i, accumulatedTokens, overlapChunks, overlapTokenCounts) ==
            IF ~(i >= 0)
               \/ accumulatedTokens + basicChunk.tokenCounts[i + 1]
                      > targetOverlap
            THEN [chunks |-> overlapChunks,
                  tokenCounts |-> overlapTokenCounts,
                  totalTokens |-> accumulatedTokens]
            ELSE Loop(i - 1,
                      accumulatedTokens + basicChunk.tokenCounts[i + 1],
                      <<basicChunk.chunks[i + 1]>> \o overlapChunks,
                      <<basicChunk.tokenCounts[i + 1]>> \o overlapTokenCounts)
    IN  Loop(Len(basicChunk.chunks) - 1, 0, <<>>, <<>>)

getOverlapChunks(basicChunk, targetOverlap) ==
    OverlapChunksLoop(basicChunk, targetOverlap, Len(basicChunk.chunks) - 1,
                      0, <<>>, <<>>)

\* finalizeBasicChunk; segments and tokenCounts record the arrays of the
\* BasicChunk that was joined; work, title and the random id are left out
finalizeBasicChunk(basicChunk) ==
    [headingPath |-> <<"The Python Tutorial">>,
     totalTokens |-> basicChunk.totalTokens,
     rawText |-> Join(basicChunk.chunks, ""),
     markdownText |-> Join(basicChunk.chunks, ""),
     segments |-> basicChunk.chunks,
     tokenCounts |-> basicChunk.tokenCounts]

\* current.chunks.push(text); current.tokenCounts.push(newTokens); ...
PushSegment(basicChunk, text, newTokens) ==
    [chunks |-> Append(basicChunk.chunks, text),
     tokenCounts |-> Append(basicChunk.tokenCounts, newTokens),
     totalTokens |-> basicChunk.totalTokens + newTokens]

TextInit ==
    /\ doc \in Docs
    /\ textIdx = 0
    /\ current = emptyBasicChunk
    /\ textChunks = <<>>
    /\ textPc = "loop"
    /\ TextRestIdle

\* one loop iteration that finalizes the current chunk before adding
AddAfterFinalize ==
    /\ textPc = "loop"
    /\ textIdx < Len(splitText(doc))
    /\ LET text == splitText(doc)[textIdx + 1]
       IN  \E newTokens \in countTokens(text) :
            /\ current.totalTokens + newTokens >= TEXT_MAX_TOKENS
            /\ textChunks' = Append(textChunks, finalizeBasicChunk(current))
            /\ current' = PushSegment(
                              getOverlapChunks(current, TEXT_OVERLAP_TOKENS),
                              text, newTokens)
    /\ textIdx' = textIdx + 1
    /\ UNCHANGED <<doc, textPc, textRest>>

\* one loop iteration that adds the segment to the current chunk
AddToCurrent ==
    /\ textPc = "loop"
    /\ textIdx < Len(splitText(doc))
    /\ LET text == splitText(doc)[textIdx + 1]
       IN  \E newTokens \in countTokens(text) :
            /\ ~(current.totalTokens + newTokens >= TEXT_MAX_TOKENS)
            /\ current' = PushSegment(current, text, newTokens)
    /\ textIdx' = textIdx + 1
    /\ UNCHANGED <<doc, textChunks, textPc, textRest>>

\* the loop is over: return chunks
ReturnChunks ==
    /\ textPc = "loop"
    /\ textIdx = Len(splitText(doc))
    /\ textPc' = "done"
    /\ UNCHANGED <<doc, textIdx, current, textChunks, textRest>>

TextNext == AddAfterFinalize \/ AddToCurrent \/ ReturnChunks

SpecText == TextInit /\ [][TextNext]_vars

\* C3: processDocument drops no content: when it returns, every segment of
\* splitText(doc) is part of at least one emitted chunk, the segments still
\* in the buffer at the end of the input included.
C3_NoSegmentDropped ==
    textPc = "done" =>
        \A i \in 1..Len(splitText(doc)) :
            \E k \in 1..Len(textChunks) :
                \E j \in 1..Len(textChunks[k].segments) :
                    textChunks[k].segments[j] = splitText(doc)[i]



RECURSIVE SumCounts(_)
SumCounts(counts) ==
    IF counts = <<>> THEN 0 ELSE counts[1] + SumCounts(Tail(counts))

\* s is the last Len(s) elements of t
IsSuffixOf(s, t) ==
    /\ Len(s) <= Len(t)
    /\ s = SubSeq(t, Len(t) - Len(s) + 1, Len(t))

\* in the step that finalizes a chunk, the BasicChunk getOverlapChunks
\* returned: the next buffer without the segment pushed after the call
OverlapReturned ==
    [chunks |-> SubSeq(current'.chunks, 1, Len(current'.chunks) - 1),
     tokenCounts |->
        SubSeq(current'.tokenCounts, 1, Len(current'.tokenCounts) - 1),
     totalTokens |->
        current'.totalTokens - current'.tokenCounts[Len(current'.tokenCounts)]]

\* C26: in the plain-text path getOverlapChunks returns a contiguous suffix
\* of the finalized chunk's segments, with at least one segment when the
\* chunk is non-empty, with a token total <= targetOverlap when it holds
\* more than one segment, and with totalTokens the sum of its tokenCounts.
C26_OverlapIsSuffix ==
    [][Len(textChunks') > Len(textChunks) =>
        LET finalized == current
            overlap == OverlapReturned
        IN  /\ IsSuffixOf(overlap.chunks, finalized.chunks)
            /\ IsSuffixOf(overlap.tokenCounts, finalized.tokenCounts)
            /\ Len(overlap.chunks) = Len(overlap.tokenCounts)
            /\ Len(finalized.chunks) > 0 => Len(overlap.chunks) >= 1
            /\ Len(overlap.chunks) > 1 =>
                   overlap.totalTokens <= TEXT_OVERLAP_TOKENS
            /\ overlap.totalTokens = SumCounts(overlap.tokenCounts)]_vars

\* a chunk of two segments was finalized and only its last segment, alone
\* over the overlap target, was carried into the next buffer
C26_Witness ==
    /\ Len(textChunks) >= 1
    /\ Len(textChunks[Len(textChunks)].segments) = 2
    /\ Len(current.chunks) = 2
    /\ current.tokenCounts[1] = textChunks[Len(textChunks)].tokenCounts[2]
    /\ current.tokenCounts[1] > TEXT_OVERLAP_TOKENS

\* C29: processDocument never emits a chunk with no segments.
C29_NoEmptyChunk ==
    \A k \in 1..Len(textChunks) :
        /\ Len(textChunks[k].segments) >= 1
        /\ textChunks[k].rawText # ""
        /\ textChunks[k].totalTokens > 0

\* every segment processed so far has fewer than TEXT_MAX_TOKENS tokens
AllSegmentsBelowMax ==
    /\ \A k \in 1..Len(textChunks) :
           \A j \in 1..Len(textChunks[k].tokenCounts) :
               textChunks[k].tokenCounts[j] < TEXT_MAX_TOKENS
    /\ \A j \in 1..Len(current.tokenCounts) :
           current.tokenCounts[j] < TEXT_MAX_TOKENS

\* C30: provided every individual segment has fewer than TEXT_MAX_TOKENS
\* tokens, every chunk processDocument emits has totalTokens <
\* TEXT_MAX_TOKENS, the overlap included.
C30_ChunksBelowMax ==
    AllSegmentsBelowMax =>
        \A k \in 1..Len(textChunks) :
            textChunks[k].totalTokens < TEXT_MAX_TOKENS

\* the budgets processDocument applies while it runs
TextBudgets ==
    IF textPc \in {"loop", "done"}
    THEN [max |-> TEXT_MAX_TOKENS, overlap |-> TEXT_OVERLAP_TOKENS]
    ELSE [max |-> 0, overlap |-> 0]

\* C17 as the specification states it: the plain-text path's token budget
\* and overlap budget are both strictly smaller than the markdown path's.
C17_TextBudgetsSmaller ==
    /\ TextBudgets.max < MAX_TOKENS
    /\ TextBudgets.overlap < OVERLAP_TOKENS

\* C17 amended: the plain-text path uses a token budget and an overlap
\* budget of its own, both strictly larger than the markdown path's:
\* TEXT_MAX_TOKENS (256) > MAX_TOKENS (200) and TEXT_OVERLAP_TOKENS (85) >
\* OVERLAP_TOKENS (20).
C17_TextBudgetsLarger ==
    /\ TextBudgets.max > MAX_TOKENS
    /\ TextBudgets.overlap > OVERLAP_TOKENS

\* the plain-text path holds an open buffer of more tokens than the markdown
\* budget, and has not finalized it
C17_Witness ==
    /\ textPc = "loop"
    /\ textChunks = <<>>
    /\ current.totalTokens > MAX_TOKENS
    /\ current.totalTokens < TEXT_MAX_TOKENS

(***************************************************************************)
(* The chunk database: create, deserializeTensor, deserializeChunkDatabase *)
(* (scripts/lib/chunk-database.ts, shared/embeddings.ts, shared/result.ts).*)
(*                                                                         *)
(* A dimension is a JSON number and may be fractional in a payload; every  *)
(* dimension is stored in units of 1/DimDenominator, Num(n) being the      *)
(* integer n.  A tensor is [type, data, dims].                             *)
(***************************************************************************)
DimDenominator == 2
MaxDimUnits == 4
MaxData == 4
MaxChunks == 2

Num(n) == n * DimDenominator

ResultOk(value) == [ok |-> TRUE, value |-> value]
ResultError(err) == [ok |-> FALSE, error |-> err]
isError(result) == ~result.ok

MODEL_NAME == "Xenova/all-MiniLM-L6-v2"

\* the elements of a tensor or of a JSON data array: a float32 value is
\* named by its text, and JSON has null besides its numbers
Float32Values == {"0.5", "NaN"}
JsonNull == "null"

DataOfLen(n) == [i \in 1..n |-> "0.5"]

\* chunks as the builder or a database file may hold them
SampleChunks ==
    {[headingPath |-> <<>>, totalTokens |-> t, rawText |-> "Hi",
      markdownText |-> "Hi\n"] : t \in {-1, 2, 3}}

ChunkLists == SeqsUpTo(SampleChunks, MaxChunks)

\* the chunk lists the builder hands to create
BuiltChunkLists ==
    SeqsUpTo({c \in SampleChunks : c.totalTokens >= 0}, MaxChunks)

RECURSIVE Size(_)
\* the number of elements of a tensor of whole dimensions
Size(dims) ==
    IF dims = <<>> THEN 1 ELSE (dims[1] \div DimDenominator) * Size(Tail(dims))

\* the embedder's output for a chunk list: a tensor of any shape
EmbedderOutputs ==
    {[type |-> "float32", data |-> DataOfLen(Size(d)), dims |-> d] :
        d \in UNION {[1..k -> {Num(n) : n \in 0..MaxChunks}] : k \in 1..3}}

\* mutant: a vector length of zero is let through
createWithoutLengthCheck(embeddedChunks, chunkList) ==
    IF Len(embeddedChunks.dims) # 2
    THEN ResultError("Invalid embeddings dimensions")
    ELSE IF embeddedChunks.dims[1] # Num(Len(chunkList))
    THEN ResultError("Mismatch between number of features and chunks")
    ELSE ResultOk([chunks |-> chunkList,
                   embeddings |-> embeddedChunks,
                   metadata |-> [embeddingModel |-> MODEL_NAME,
                                 dimension |-> embeddedChunks.dims[2],
                                 createdAt |-> "now"]])

\* ChunkDb.create, embeddedChunks being what embedChunks returned
create(embeddedChunks, chunkList) ==
    IF Len(embeddedChunks.dims) # 2
    THEN ResultError("Invalid embeddings dimensions")
    ELSE LET numFeatures == embeddedChunks.dims[1]
             vectorLength == embeddedChunks.dims[2]
         IN  IF numFeatures # Num(Len(chunkList))
             THEN ResultError("Mismatch between number of features and chunks")
             ELSE IF vectorLength = 0
             THEN ResultError("Invalid vector length")
             ELSE ResultOk([chunks |-> chunkList,
                            embeddings |-> embeddedChunks,
                            metadata |-> [embeddingModel |-> MODEL_NAME,
                                          dimension |-> vectorLength,
                                          createdAt |-> "now"]])

\* the embeddings payloads a file may hold
TensorPayloads ==
    {[dataType |-> t, data |-> DataOfLen(n), dimensions |-> <<r, c>>] :
        t \in {"float32", "int32"}, n \in 0..MaxData,
        r \in -1..MaxDimUnits, c \in -1..MaxDimUnits}

\* data.length === dimensions[0] * dimensions[1]
ExactSize(x) ==
    Len(x.data) * DimDenominator * DimDenominator
        = x.dimensions[1] * x.dimensions[2]

\* mutant: the schema without its refinement
TensorDataSchemaShapeOnly(x) ==
    /\ x.dataType = "float32"
    /\ \A i \in 1..Len(x.data) : x.data[i] # JsonNull
    /\ x.dimensions[1] >= 0
    /\ x.dimensions[2] >= 0

TensorDataSchema(x) ==
    /\ x.dataType = "float32"
    /\ \A i \in 1..Len(x.data) : x.data[i] # JsonNull
    /\ x.dimensions[1] >= 0
    /\ x.dimensions[2] >= 0
    /\ ExactSize(x)

\* Math.round of the number n / d, for n >= 0
Round(n, d) == (2 * n + d) \div (2 * d)

checkTensorDataDimensions(tensorData) ==
    Len(tensorData.data) =
        Round(tensorData.dimensions[1] * tensorData.dimensions[2],
              DimDenominator * DimDenominator)

\* new Tensor(...) inside try/catch; whether the constructor throws is the
\* library's choice
tensorFromTensorData(tensorData, ctorThrows) ==
    IF ctorThrows THEN ResultError("Failed to create Float32Array")
    ELSE ResultOk([type |-> tensorData.dataType, data |-> tensorData.data,
                   dims |-> tensorData.dimensions])

Malformed == [malformed |-> TRUE]

\* deserializeTensor on the text of json; JSON.parse throws on text that is
\* no JSON, which no caller catches
deserializeTensor(json, ctorThrows) ==
    IF json = Malformed THEN [threw |-> "SyntaxError"]
    ELSE IF ~TensorDataSchema(json)
    THEN ResultError("data.length !== dimensions[0] * dimensions[1]")
    ELSE IF ~checkTensorDataDimensions(json)
    THEN ResultError("Tensor data dimensions do not match")
    ELSE tensorFromTensorData(json, ctorThrows)

FinalizedChunkSchema(x) ==
    /\ x.totalTokens >= 0
    /\ Len(x.rawText) >= x.totalTokens

DbPayloads ==
    {[chunks |-> cs, embeddings |-> e,
      metadata |-> [embeddingModel |-> MODEL_NAME, dimension |-> d,
                    createdAt |-> "now"]] :
        cs \in ChunkLists, e \in TensorPayloads, d \in 0..MaxDimUnits}

SerializableChunkDatabaseSchema(x) ==
    /\ \A i \in 1..Len(x.chunks) : FinalizedChunkSchema(x.chunks[i])
    /\ TensorDataSchema(x.embeddings)

chunkDatabaseFromSerializableChunkDatabase(serializable, ctorThrows) ==
    LET tensorResult == tensorFromTensorData(serializable.embeddings,
                                             ctorThrows)
    IN  IF isError(tensorResult) THEN ResultError("Invalid embeddings")
        ELSE ResultOk([chunks |-> serializable.chunks,
                       embeddings |-> tensorResult.value,
                       metadata |-> serializable.metadata])

deserializeChunkDatabase(x, ctorThrows) ==
    IF ~SerializableChunkDatabaseSchema(x)
    THEN ResultError("Invalid chunk database")
    ELSE chunkDatabaseFromSerializableChunkDatabase(x, ctorThrows)

\* createTensorData; a tensor of type float32 holds a Float32Array
createTensorData(tensor) ==
    IF tensor.type # "float32"
    THEN ResultError("Tensor must be of type float32")
    ELSE IF Len(tensor.dims) # 2
    THEN ResultError("Tensor dimensions must be 2D")
    ELSE ResultOk([dataType |-> tensor.type, data |-> tensor.data,
                   dimensions |-> <<tensor.dims[1], tensor.dims[2]>>])

\* what JSON.stringify writes for a number, read back by JSON.parse: a
\* finite number comes back as itself, NaN comes back as null
JsonNumber(v) == IF v = "NaN" THEN JsonNull ELSE v

\* JSON.stringify of a TensorData, named by the value its text parses to
JsonTensorData(tensorData) ==
    [tensorData EXCEPT
        !.data = [i \in 1..Len(tensorData.data) |->
                    JsonNumber(tensorData.data[i])]]

serializeTensor(tensor) ==
    LET tensorDataResult == createTensorData(tensor)
    IN  IF ~tensorDataResult.ok
        THEN ResultError("Failed to create TensorData")
        ELSE ResultOk(JsonTensorData(tensorDataResult.value))

serializeChunkDatabase(db) ==
    LET tensorDataResult == createTensorData(db.embeddings)
    IN  IF isError(tensorDataResult)
        THEN ResultError("Failed to serialize embeddings")
        ELSE ResultOk([chunks |-> db.chunks,
                       embeddings |-> JsonTensorData(tensorDataResult.value),
                       metadata |-> db.metadata])

\* the float32 matrices of whole dimensions
Tensors ==
    UNION {{[type |-> "float32", data |-> d, dims |-> <<Num(r), Num(c)>>] :
                d \in [1..(r * c) -> Float32Values]} :
            r \in 0..MaxChunks, c \in 0..MaxChunks}

\* the databases create returns with ok
BuiltDatabases ==
    {create(e, cs).value :
        <<e, cs>> \in {x \in Tensors \X BuiltChunkLists :
                            ~isError(create(x[1], x[2]))}}

DbInit ==
    /\ dbCall = [op |-> "none"]
    /\ dbResult = [op |-> "none"]
    /\ DbRestIdle

Create ==
    /\ dbCall.op = "none"
    /\ \E chunkList \in BuiltChunkLists, embeddedChunks \in EmbedderOutputs :
        /\ dbCall' = [op |-> "create", chunks |-> chunkList,
                      embeddedChunks |-> embeddedChunks]
        /\ dbResult' = create(embeddedChunks, chunkList)
    /\ UNCHANGED dbRest

DeserializeTensor ==
    /\ dbCall.op = "none"
    /\ \E json \in TensorPayloads \cup {Malformed}, ctorThrows \in BOOLEAN :
        /\ dbCall' = [op |-> "deserializeTensor", json |-> json,
                      ctorThrows |-> ctorThrows]
        /\ dbResult' = deserializeTensor(json, ctorThrows)
    /\ UNCHANGED dbRest

DeserializeChunkDatabase ==
    /\ dbCall.op = "none"
    /\ \E x \in DbPayloads, ctorThrows \in BOOLEAN :
        /\ dbCall' = [op |-> "deserializeChunkDatabase", x |-> x,
                      ctorThrows |-> ctorThrows]
        /\ dbResult' = deserializeChunkDatabase(x, ctorThrows)
    /\ UNCHANGED dbRest

\* deserializeTensor(serializeTensor(tensor)), as the round-trip test calls
\* them; the constructor built tensor from the same type, data and
\* dimensions, so it does not throw here
RoundTripTensor ==
    /\ dbCall.op = "none"
    /\ \E tensor \in Tensors :
        /\ dbCall' = [op |-> "roundTripTensor", tensor |-> tensor]
        /\ dbResult' =
              LET serialized == serializeTensor(tensor)
              IN  IF isError(serialized) THEN serialized
                  ELSE deserializeTensor(serialized.value, FALSE)
    /\ UNCHANGED dbRest

\* the build writes serializeChunkDatabase(db) to the output file and the
\* page hands the parsed file to deserializeChunkDatabase
RoundTripDatabase ==
    /\ dbCall.op = "none"
    /\ \E db \in BuiltDatabases :
        /\ dbCall' = [op |-> "roundTripDatabase", db |-> db]
        /\ dbResult' =
              LET serialized == serializeChunkDatabase(db)
              IN  IF isError(serialized) THEN serialized
                  ELSE deserializeChunkDatabase(serialized.value, FALSE)
    /\ UNCHANGED dbRest

DbNext ==
    \/ Create
    \/ DeserializeTensor
    \/ DeserializeChunkDatabase
    \/ RoundTripTensor
    \/ RoundTripDatabase

SpecDb == DbInit /\ [][DbNext]_vars

IsErrorResult(r) == DOMAIN r = {"ok", "error"} /\ r.ok = FALSE

\* C9: ChunkDb.create returns an error result, and no database, whenever
\* the embedder's output is not 2-dimensional, its row count differs from
\* the number of chunks, or its vector length is zero; it returns ok only
\* when all three checks pass, and the database then holds the chunks in
\* their original order, the embedder's tensor, and metadata.dimension equal
\* to the vector length.
C9_CreateAllOrNothing ==
    dbCall.op = "create" =>
        LET dims == dbCall.embeddedChunks.dims
            valid == /\ Len(dims) = 2
                     /\ dims[1] = Num(Len(dbCall.chunks))
                     /\ dims[2] # 0
        IN  /\ ~valid => IsErrorResult(dbResult)
            /\ valid =>
                /\ DOMAIN dbResult = {"ok", "value"}
                /\ dbResult.ok
                /\ dbResult.value.chunks = dbCall.chunks
                /\ dbResult.value.embeddings = dbCall.embeddedChunks
                /\ dbResult.value.metadata.dimension = dims[2]

C9_Witness ==
    /\ dbCall.op = "create"
    /\ Len(dbCall.chunks) = 2
    /\ dbCall.chunks[1] # dbCall.chunks[2]
    /\ dbResult.ok
    /\ dbResult.value.metadata.dimension = Num(2)

\* the embeddings payload of a deserialization call
CallEmbeddings ==
    IF dbCall.op = "deserializeTensor" THEN dbCall.json
    ELSE dbCall.x.embeddings

\* C10: deserializeTensor and deserializeChunkDatabase both answer an
\* embeddings payload whose flat data length is not exactly
\* dimensions[0] * dimensions[1] with an error result; no tensor and no
\* database is returned for it.
C10_SizeMismatchRejected ==
    (/\ dbCall.op \in {"deserializeTensor", "deserializeChunkDatabase"}
     /\ CallEmbeddings # Malformed
     /\ ~ExactSize(CallEmbeddings))
        => IsErrorResult(dbResult)

C10_Witness ==
    /\ dbCall.op = "deserializeTensor"
    /\ dbCall.json # Malformed
    /\ dbCall.json.dataType = "float32"
    /\ dbCall.json.dimensions[1] > 0
    /\ dbCall.json.dimensions[2] > 0
    /\ checkTensorDataDimensions(dbCall.json)
    /\ ~ExactSize(dbCall.json)
    /\ ~dbCall.ctorThrows
    /\ IsErrorResult(dbResult)

(***************************************************************************)
(* Query-time search: ChunkDb.search over a loaded database                *)
(* (scripts/lib/chunk-database.ts, shared/embeddings.ts).                  *)
(*                                                                         *)
(* Arithmetic is needed here, so a matrix is [dims, data] with the         *)
(* elements as integers in tenths, row-major; a similarity score, the      *)
(* product of two elements summed, is then in hundredths, the unit of the  *)
(* ranker above.  search suspends twice: at the embedder's inference and   *)
(* at the matrix product; any other call may run in between.               *)
(***************************************************************************)
MaxRows == 4
MaxSearches == 2

\* unit-length vectors, in tenths
UnitVectors == {<<10, 0>>, <<6, 8>>, <<0, 10>>}

\* a database file may also hold another vector length than the embedder's
ShortVectors == {<<10>>}

RECURSIVE Flatten(_)
Flatten(rows) == IF rows = <<>> THEN <<>> ELSE rows[1] \o Flatten(Tail(rows))

Matrix(rows, cols) == [dims |-> <<Len(rows), cols>>, data |-> Flatten(rows)]

\* element (i, j) of a matrix, 0-based
At(tensor, i, j) == tensor.data[i * tensor.dims[2] + j + 1]

SearchChunk(i) ==
    [headingPath |-> <<>>, totalTokens |-> 1, rawText |-> BlockText(i),
     markdownText |-> BlockText(i)]

\* the databases create builds: one row per chunk
SearchDatabases ==
    {[chunks |-> [i \in 1..Len(x[1]) |-> SearchChunk(i)],
      embeddings |-> Matrix(x[1], x[2]),
      metadata |-> [embeddingModel |-> MODEL_NAME, dimension |-> x[2],
                    createdAt |-> "now"]] :
        x \in (SeqsUpTo(UnitVectors, MaxRows) \X {2})
                \cup (SeqsUpTo(ShortVectors, MaxRows) \X {1})}

Queries == {"loops", "lists"}

\* extractFeatures(pipeline, [query]): the embedder's 1 x D unit vector
extractFeatures(query) ==
    IF query = "loops" THEN Matrix(<< <<10, 0>> >>, 2)
    ELSE Matrix(<< <<6, 8>> >>, 2)

transpose(tensor) ==
    [dims |-> <<tensor.dims[2], tensor.dims[1]>>,
     data |-> [k \in 1..(tensor.dims[1] * tensor.dims[2]) |->
                 At(tensor, (k - 1) % tensor.dims[1],
                            (k - 1) \div tensor.dims[1])]]

canMultiply(aDims, bDims) ==
    Len(aDims) = 2 /\ Len(bDims) = 2 /\ aDims[2] = bDims[1]

RECURSIVE DotFrom(_, _, _, _)
\* sum over k of a[i][k] * b[k][j], from k on
DotFrom(a, b, ij, k) ==
    IF k >= a.dims[2] THEN 0
    ELSE At(a, ij[1], k) * At(b, k, ij[2]) + DotFrom(a, b, ij, k + 1)

matmul(a, b) ==
    [dims |-> <<a.dims[1], b.dims[2]>>,
     data |-> [k \in 1..(a.dims[1] * b.dims[2]) |->
                 DotFrom(a, b, <<(k - 1) \div b.dims[2],
                                 (k - 1) % b.dims[2]>>, 0)]]

\* similarityTensor._getitem(0).data
FirstRow(tensor) == SubSeq(tensor.data, 1, tensor.dims[2])

\* mutant: the i-th result is paired with the i-th score and chunk
BestOfByRank(database, similarityData, indices) ==
    [i \in 1..Len(indices) |->
        [score |-> similarityData[i], chunk |-> database.chunks[i]]]

\* search from findBestResults on: the returned pairs
BestOf(database, similarityData, indices) ==
    [i \in 1..Len(indices) |->
        [score |-> similarityData[indices[i] + 1],
         chunk |-> database.chunks[indices[i] + 1]]]

SearchSlots == 1..MaxSearches

NoSearch == [pc |-> "idle"]

\* mutant: the embedded query is kept in one place shared by all calls, so
\* a call reads the query of the earliest call still holding one
embeddedQueryShared(s) ==
    LET holders == {t \in SearchSlots : searches[t].pc \in {"matmul", "done"}}
    IN  searches[CHOOSE t \in holders : \A u \in holders : t <= u].embeddedQuery

\* the local embeddedQuery of call s
embeddedQueryOf(s) == searches[s].embeddedQuery

SearchInit ==
    /\ searchDb \in SearchDatabases
    /\ searches = [s \in SearchSlots |-> NoSearch]
    /\ returned = {}
    /\ SearchRestIdle

\* search is called: it runs to its first await, the embedder's inference
StartSearch(s) ==
    /\ searches[s].pc = "idle"
    /\ \E query \in Queries :
        searches' = [searches EXCEPT
                        ![s] = [pc |-> "extractFeatures", query |-> query]]
    /\ UNCHANGED <<searchDb, returned, searchRest>>

\* the inference is done: similarity transposes the query and checks the
\* shapes; it returns undefined, and search an error, or awaits the product
ExtractFeaturesDone(s) ==
    /\ searches[s].pc = "extractFeatures"
    /\ LET embeddedQuery == extractFeatures(searches[s].query)
           queryTranspose == transpose(embeddedQuery)
       IN  IF ~canMultiply(searchDb.embeddings.dims, queryTranspose.dims)
           THEN LET result == ResultError("Failed to compute similarity")
                IN  /\ searches' = [searches EXCEPT
                            ![s] = [pc |-> "done",
                                    query |-> searches[s].query,
                                    embeddedQuery |-> embeddedQuery,
                                    result |-> result]]
                    /\ returned' =
                            returned \cup {<<searches[s].query, result>>}
           ELSE /\ searches' = [searches EXCEPT
                            ![s] = [pc |-> "matmul",
                                    query |-> searches[s].query,
                                    embeddedQuery |-> embeddedQuery]]
                /\ UNCHANGED returned
    /\ UNCHANGED <<searchDb, searchRest>>

\* the product is done: the rest of similarity and of search runs without
\* suspending; a float32 product's data is a Float32Array
MatmulDone(s) ==
    /\ searches[s].pc = "matmul"
    /\ LET similarityTensor ==
               transpose(matmul(searchDb.embeddings,
                                transpose(embeddedQueryOf(s))))
           similarityData == FirstRow(similarityTensor)
           indices == findBestResults(similarityData)
           result == ResultOk(BestOf(searchDb, similarityData, indices))
       IN  /\ searches' = [searches EXCEPT
                   ![s] = [pc |-> "done",
                           query |-> searches[s].query,
                           embeddedQuery |-> searches[s].embeddedQuery,
                           similarityData |-> similarityData,
                           bestIndices |-> indices,
                           result |-> result]]
           /\ returned' = returned \cup {<<searches[s].query, result>>}
    /\ UNCHANGED <<searchDb, searchRest>>

\* the caller has taken the result; the slot is free for another call
TakeResult(s) ==
    /\ searches[s].pc = "done"
    /\ searches' = [searches EXCEPT ![s] = NoSearch]
    /\ UNCHANGED <<searchDb, returned, searchRest>>

SearchNext ==
    \E s \in SearchSlots :
        \/ StartSearch(s)
        \/ ExtractFeaturesDone(s)
        \/ MatmulDone(s)
        \/ TakeResult(s)

SpecSearch == SearchInit /\ [][SearchNext]_vars


\* the searches that returned an ok result
Answered == {s \in SearchSlots : searches[s].pc = "done" /\ searches[s].result.ok}

\* the cosine similarity of database row k (0-based) and a search's query
RowScore(s, k) ==
    At(searchDb.embeddings, k, 0) * At(searches[s].embeddedQuery, 0, 0)
        + At(searchDb.embeddings, k, 1) * At(searches[s].embeddedQuery, 0, 1)

\* C13: the list findBestResults returns is a prefix of the full
\* descending-score ranking: the returned indices are distinct and lie in
\* 0..N-1, their scores are non-increasing, every returned score is >= every
\* non-returned score; and search pairs each returned index with that
\* index's own score and chunk.
C13_RankingPrefix ==
    \A s \in Answered :
        LET sd == searches[s].similarityData
            bi == searches[s].bestIndices
            best == searches[s].result.value
            N == Len(searchDb.chunks)
        IN  /\ Len(sd) = N
            /\ \A i \in 1..Len(bi) : bi[i] \in 0..(N - 1)
            /\ \A i, j \in 1..Len(bi) : i # j => bi[i] # bi[j]
            /\ \A i, j \in 1..Len(bi) : i < j => sd[bi[i] + 1] >= sd[bi[j] + 1]
            /\ \A i \in 1..Len(bi) : \A k \in 0..(N - 1) :
                    (\A j \in 1..Len(bi) : bi[j] # k) => sd[bi[i] + 1] >= sd[k + 1]
            /\ Len(best) = Len(bi)
            /\ \A i \in 1..Len(bi) :
                    /\ best[i].score = RowScore(s, bi[i])
                    /\ best[i].chunk = searchDb.chunks[bi[i] + 1]

\* a search over four chunks returned two of them, the best being a later
\* chunk than the second best, and left out two
C13_Witness ==
    \E s \in Answered :
        /\ Len(searchDb.chunks) = 4
        /\ Len(searches[s].bestIndices) = 2
        /\ searches[s].bestIndices[1] > searches[s].bestIndices[2]
        /\ searches[s].result.value[1].score > searches[s].result.value[2].score

\* C16: a search never mutates the database: over any number of search
\* calls, in any interleaving of in-flight searches, the database's chunks,
\* embeddings and metadata stay as they were; and a search's result depends
\* only on the database and its own query: whatever else is running or has
\* completed, the same query always gets the same result.
C16_SearchLeavesDatabase ==
    [][/\ searchDb'.chunks = searchDb.chunks
       /\ searchDb'.embeddings = searchDb.embeddings
       /\ searchDb'.metadata = searchDb.metadata
       /\ \A p, q \in returned' : p[1] = q[1] => p[2] = q[2]]_vars

\* a search has returned while another, for a different query, is waiting
\* for its product, after earlier searches for both queries returned
C16_Witness ==
    /\ Len(searchDb.chunks) >= 3
    /\ searches[1].pc = "matmul"
    /\ searches[2].pc = "done"
    /\ searches[2].result.ok
    /\ searches[1].query # searches[2].query
    /\ \A query \in Queries : \E p \in returned : p[1] = query

(***************************************************************************)
(* The corpus build: main of scripts/embed.ts with parseCliArgs of         *)
(* scripts/lib/config.ts.                                                  *)
(*                                                                         *)
(* A build is an operating-system process; the same command may be started *)
(* more than once, and the processes share the file system.  The output    *)
(* file is [exists, by]: by names the build that wrote it, "other" for a   *)
(* file that was there before, "nobody" for none.                          *)
(***************************************************************************)
MaxInputs == 2

Builds == {"first", "second"}

\* an input entry of config.json: its type and whether its file exists
InputEntries ==
    {[type |-> "markdown", exists |-> TRUE],
     [type |-> "text", exists |-> TRUE],
     [type |-> "text", exists |-> FALSE]}

\* what config.json may hold; shape is FALSE for JSON of another shape
ConfigFiles ==
    {[shape |-> TRUE, output |-> "db.json", input |-> input] :
        input \in SeqsUpTo(InputEntries, MaxInputs)}
        \cup {[shape |-> FALSE, output |-> "db.json", input |-> <<>>]}

\* the positional arguments of the command
ArgLists == {<<>>, <<"config.json">>}

InputSchema(x) == x.exists

\* ConfigSchema.safeParse(configJson).success, outputExists being what
\* Fs.existsSync(value.output) answers
ConfigSchema(configJson, outputExists) ==
    /\ configJson.shape
    /\ \A i \in 1..Len(configJson.input) : InputSchema(configJson.input[i])
    /\ ~outputExists

parseCliArgs(args, configJson, outputExists) ==
    IF Len(args) # 1
    THEN ResultError("Error: exactly one argument -- the config.json file")
    ELSE IF ~ConfigSchema(configJson, outputExists)
    THEN ResultError("Invalid config.json file")
    ELSE ResultOk([output |-> configJson.output, input |-> configJson.input])

\* the chunks processMarkdownFile or processDocument may return for an input
InputChunks(i) == {<<>>, <<SearchChunk(i)>>}

\* what embedChunks may return for the chunks: the right shape, a shape
\* create rejects, or a tensor of another type
BuildEmbeddings(allChunks) ==
    LET n == Len(allChunks)
        Of(type, dims) ==
            [type |-> type, data |-> DataOfLen(Size(dims)), dims |-> dims]
    IN  {Of("float32", <<Num(n), Num(2)>>),
         Of("float16", <<Num(n), Num(2)>>),
         Of("float32", <<Num(n + 1), Num(2)>>),
         Of("float32", <<Num(n), 0>>),
         Of("float32", <<Num(n)>>)}

NoFile == [exists |-> FALSE, by |-> "nobody"]
OldFile == [exists |-> TRUE, by |-> "other"]

BuildInit ==
    /\ outputFile \in {NoFile, OldFile}
    /\ \E args \in ArgLists, configJson \in ConfigFiles :
        builds = [b \in Builds |->
                    [pc |-> "start", args |-> args, configJson |-> configJson,
                     exitCode |-> 0]]
    /\ writes = <<>>
    /\ BuildRestIdle

\* mutant: main does not wait for the loop over args.input to end
inputsDoneEarly(build) == TRUE

\* the loop over args.input has consumed every input
inputsDone(build) == build.processed = Len(build.args.input)

\* where main goes after ChunkDb.create returned
afterCreate(createResult) ==
    IF isError(createResult) THEN "exited" ELSE "created"

\* main up to the first await: parseCliArgs and the check of its result
ParseCliArgs(b) ==
    /\ builds[b].pc = "start"
    /\ LET argsResult == parseCliArgs(builds[b].args, builds[b].configJson,
                                      outputFile.exists)
       IN  builds' = [builds EXCEPT ![b] =
               IF isError(argsResult)
               THEN [pc |-> "exited", exitCode |-> 1,
                     argsResult |-> argsResult,
                     sawOutput |-> outputFile.exists]
               ELSE [pc |-> "inputs", exitCode |-> 0,
                     argsResult |-> argsResult,
                     sawOutput |-> outputFile.exists,
                     args |-> argsResult.value,
                     processed |-> 0, allChunks |-> <<>>]]
    /\ UNCHANGED <<outputFile, writes, buildRest>>

\* one iteration of the loop over args.input
ProcessInput(b) ==
    /\ builds[b].pc = "inputs"
    /\ builds[b].processed < Len(builds[b].args.input)
    /\ \E chunkList \in InputChunks(builds[b].processed + 1) :
        builds' = [builds EXCEPT
                     ![b].processed = @ + 1,
                     ![b].allChunks = @ \o chunkList]
    /\ UNCHANGED <<outputFile, writes, buildRest>>

\* the loop is over: await ChunkDb.create, and the check of its result
CreateDb(b) ==
    /\ builds[b].pc = "inputs"
    /\ inputsDone(builds[b])
    /\ \E embeddedChunks \in BuildEmbeddings(builds[b].allChunks) :
        LET createResult == create(embeddedChunks, builds[b].allChunks)
        IN  builds' = [builds EXCEPT ![b] =
                [pc |-> afterCreate(createResult),
                 exitCode |-> IF isError(createResult) THEN 1 ELSE 0,
                 argsResult |-> builds[b].argsResult,
                 sawOutput |-> builds[b].sawOutput,
                 args |-> builds[b].args,
                 processed |-> builds[b].processed,
                 allChunks |-> builds[b].allChunks,
                 dbResult |-> createResult]]
    /\ UNCHANGED <<outputFile, writes, buildRest>>

\* serializeChunkDatabase, the check of its result, and Fs.writeFileSync,
\* which creates the file or replaces its content
SerializeAndWrite(b) ==
    /\ builds[b].pc = "created"
    /\ LET serializeResult ==
               IF isError(builds[b].dbResult)
               THEN ResultError("Failed to serialize embeddings")
               ELSE serializeChunkDatabase(builds[b].dbResult.value)
       IN  /\ builds' = [builds EXCEPT ![b] =
                   [pc |-> "exited",
                    exitCode |-> IF isError(serializeResult) THEN 1 ELSE 0,
                    argsResult |-> builds[b].argsResult,
                    sawOutput |-> builds[b].sawOutput,
                    args |-> builds[b].args,
                    processed |-> builds[b].processed,
                    allChunks |-> builds[b].allChunks,
                    dbResult |-> builds[b].dbResult,
                    serializeResult |-> serializeResult]]
           /\ IF isError(serializeResult)
              THEN UNCHANGED <<outputFile, writes>>
              ELSE /\ outputFile' = [exists |-> TRUE, by |-> b]
                   /\ writes' = Append(writes,
                                       [by |-> b, existed |-> outputFile.exists,
                                        value |-> serializeResult.value])
    /\ UNCHANGED buildRest

BuildNext ==
    \E b \in Builds :
        \/ ParseCliArgs(b)
        \/ ProcessInput(b)
        \/ CreateDb(b)
        \/ SerializeAndWrite(b)

SpecBuild == BuildInit /\ [][BuildNext]_vars

\* the positions in writes of the writes build b made
WritesOf(b) == {i \in 1..Len(writes) : writes[i].by = b}

\* C18: a corpus build never overwrites an existing output file: if the
\* output path exists when the config is parsed, parseCliArgs returns an
\* error and the build writes nothing; and whenever a build writes the
\* output file, the path did not exist at the moment of writing.
C18_NeverOverwrites ==
    /\ \A b \in Builds :
            (builds[b].pc # "start" /\ builds[b].sawOutput)
                => (isError(builds[b].argsResult) /\ WritesOf(b) = {})
    /\ \A i \in 1..Len(writes) : ~writes[i].existed

\* build b has the result of the named step, and it is an error
Failed(b, step) == step \in DOMAIN builds[b] /\ isError(builds[b][step])

\* C19: a corpus build writes the output file at most once, and only after
\* all inputs were processed and both ChunkDb.create and
\* serializeChunkDatabase returned ok; if argument parsing, database
\* creation or serialization returns an error, the build sets a non-zero
\* exit code and writes nothing to the output path.
C19_WriteOnceAfterSuccess ==
    \A b \in Builds :
        /\ Cardinality(WritesOf(b)) <= 1
        /\ WritesOf(b) # {} =>
                /\ builds[b].pc = "exited"
                /\ builds[b].processed = Len(builds[b].args.input)
                /\ builds[b].dbResult.ok
                /\ builds[b].serializeResult.ok
                /\ \A i \in WritesOf(b) :
                        writes[i].value = builds[b].serializeResult.value
        /\ \A step \in {"argsResult", "dbResult", "serializeResult"} :
                Failed(b, step) =>
                    /\ builds[b].pc = "exited"
                    /\ builds[b].exitCode # 0
                    /\ WritesOf(b) = {}

\* one build wrote the output after processing two inputs, the other
\* stopped on an error of create
C19_Witness ==
    \E b, c \in Builds :
        /\ WritesOf(b) # {}
        /\ builds[b].processed = 2
        /\ Len(builds[b].allChunks) = 2
        /\ Failed(c, "dbResult")
        /\ WritesOf(c) = {}

(***************************************************************************)
(* The paragraph splitter's grouping: groupSentencesIntoChunks             *)
(* (scripts/lib/parse-semantic-blocks.ts).                                 *)
(***************************************************************************)
TARGET_TOKENS == 200

\* mutant: a run that would exactly reach the target is closed as well
startsNewRunAtTarget(tokens, sentenceTokens, run) ==
    tokens + sentenceTokens >= TARGET_TOKENS /\ Len(run) > 0

\* currentTokens + sentenceTokens > TARGET_TOKENS && currentChunk.length > 0
startsNewRun(tokens, sentenceTokens, run) ==
    tokens + sentenceTokens > TARGET_TOKENS /\ Len(run) > 0

GroupInit ==
    /\ \E n \in 0..MaxSentences : sentences = [i \in 1..n |-> Sentence(i)]
    /\ sentenceIdx = 0
    /\ sentenceCounts = <<>>
    /\ currentChunk = <<>>
    /\ currentTokens = 0
    /\ sentenceChunks = <<>>
    /\ groupPc = "loop"
    /\ GroupRestIdle

\* one loop iteration that pushes the current run before taking the sentence
PushRunThenAdd ==
    /\ groupPc = "loop"
    /\ sentenceIdx < Len(sentences)
    /\ LET sentence == sentences[sentenceIdx + 1]
       IN  \E sentenceTokens \in countTokens(sentence) :
            /\ startsNewRun(currentTokens, sentenceTokens, currentChunk)
            /\ sentenceChunks' = Append(sentenceChunks, currentChunk)
            /\ currentChunk' = <<sentence>>
            /\ currentTokens' = sentenceTokens
            /\ sentenceCounts' = Append(sentenceCounts, sentenceTokens)
    /\ sentenceIdx' = sentenceIdx + 1
    /\ UNCHANGED <<sentences, groupPc, groupRest>>

\* one loop iteration that adds the sentence to the current run
AddSentence ==
    /\ groupPc = "loop"
    /\ sentenceIdx < Len(sentences)
    /\ LET sentence == sentences[sentenceIdx + 1]
       IN  \E sentenceTokens \in countTokens(sentence) :
            /\ ~startsNewRun(currentTokens, sentenceTokens, currentChunk)
            /\ currentChunk' = Append(currentChunk, sentence)
            /\ currentTokens' = currentTokens + sentenceTokens
            /\ sentenceCounts' = Append(sentenceCounts, sentenceTokens)
    /\ sentenceIdx' = sentenceIdx + 1
    /\ UNCHANGED <<sentences, sentenceChunks, groupPc, groupRest>>

\* the loop is over: push the last run if it is not empty, return chunks
ReturnRuns ==
    /\ groupPc = "loop"
    /\ sentenceIdx = Len(sentences)
    /\ sentenceChunks' =
            IF Len(currentChunk) > 0 THEN Append(sentenceChunks, currentChunk)
            ELSE sentenceChunks
    /\ groupPc' = "done"
    /\ UNCHANGED <<sentences, sentenceIdx, sentenceCounts, currentChunk,
                   currentTokens, groupRest>>

GroupNext == PushRunThenAdd \/ AddSentence \/ ReturnRuns

SpecGroup == GroupInit /\ [][GroupNext]_vars

\* the position in sentences of the first sentence of run k
RunStart(k) == Len(Flatten(SubSeq(sentenceChunks, 1, k - 1))) + 1

\* the tokens of the sentences at positions from..to
RangeTokens(from, to) ==
    LET RECURSIVE Sum(_)
        Sum(i) == IF i > to THEN 0 ELSE sentenceCounts[i] + Sum(i + 1)
    IN  Sum(from)

\* C20: groupSentencesIntoChunks partitions the sentence list into
\* consecutive runs in original order, no sentence lost or duplicated; a new
\* run starts exactly before a sentence whose tokens added to the current
\* non-empty run's sum would exceed TARGET_TOKENS, so every run has a token
\* sum <= TARGET_TOKENS or is a single sentence; three 80-token sentences
\* with TARGET_TOKENS = 200 give the runs [s1, s2] and [s3].
C20_SentenceRuns ==
    groupPc = "done" =>
        /\ Flatten(sentenceChunks) = sentences
        /\ \A k \in 1..Len(sentenceChunks) :
            LET first == RunStart(k)
                last == first + Len(sentenceChunks[k]) - 1
            IN  /\ Len(sentenceChunks[k]) >= 1
                /\ k > 1 =>
                        RangeTokens(RunStart(k - 1), first - 1)
                            + sentenceCounts[first] > TARGET_TOKENS
                /\ \A j \in (first + 1)..last :
                        RangeTokens(first, j) <= TARGET_TOKENS
                /\ \/ RangeTokens(first, last) <= TARGET_TOKENS
                   \/ Len(sentenceChunks[k]) = 1
        /\ sentenceCounts = <<80, 80, 80>> =>
                sentenceChunks = << <<"s1", "s2">>, <<"s3">> >>

\* the specification's example has been grouped
C20_Witness ==
    /\ groupPc = "done"
    /\ sentenceCounts = <<80, 80, 80>>
    /\ Len(sentenceChunks) = 2

(***************************************************************************)
(* The block splitter: splitRegularNodeIntoBlocks, splitOversizedBlock,    *)
(* trySplitCodeBlock, trySplitParagraph                                    *)
(* (scripts/lib/parse-semantic-blocks.ts).                                 *)
(*                                                                         *)
(* A node's content is a sequence of characters.  The tokenizer is a       *)
(* function of its text: cache holds the answers it gave during the call,  *)
(* and a text that is counted again gets the answer it got before.         *)
(***************************************************************************)
MaxNodeLen == 4

CodeChars == {"x", " ", "\n"}
ParagraphChars == {"a", ".", " "}
Whitespace == {" ", "\n"}
SentenceEnd == {".", "!", "?"}

RECURSIVE Str(_)
\* the string of a sequence of characters
Str(chars) == IF chars = <<>> THEN "" ELSE chars[1] \o Str(Tail(chars))

RECURSIVE JoinSeqs(_, _)
\* Array.prototype.join, on sequences of characters
JoinSeqs(parts, sep) ==
    IF parts = <<>> THEN <<>>
    ELSE IF Len(parts) = 1 THEN parts[1]
    ELSE parts[1] \o sep \o JoinSeqs(Tail(parts), sep)

RECURSIVE SplitLines(_, _, _)
\* node.value.split("\n") from position p on
SplitLines(value, p, cur) ==
    IF p > Len(value) THEN <<cur>>
    ELSE IF value[p] = "\n" THEN <<cur>> \o SplitLines(value, p + 1, <<>>)
    ELSE SplitLines(value, p + 1, Append(cur, value[p]))

Lines(value) == SplitLines(value, 1, <<>>)

RECURSIVE WhitespaceRun(_, _)
WhitespaceRun(text, p) ==
    IF p <= Len(text) /\ text[p] \in Whitespace
    THEN 1 + WhitespaceRun(text, p + 1) ELSE 0

RECURSIVE SplitSentences(_, _, _)
\* text.split(/(?<=[.!?])\s+/) from position p on
SplitSentences(text, p, cur) ==
    IF p > Len(text) THEN <<cur>>
    ELSE IF text[p] \in Whitespace /\ p > 1 /\ text[p - 1] \in SentenceEnd
         THEN <<cur>>
              \o SplitSentences(text, p + WhitespaceRun(text, p), <<>>)
         ELSE SplitSentences(text, p + 1, Append(cur, text[p]))

Sentences(text) == SplitSentences(text, 1, <<>>)

isEmptyWhenTrimmed(string) == \A i \in 1..Len(string) : string[i] \in Whitespace

\* a paragraph's text as the markdown parser delivers it: not empty, no
\* white space at either end
ParagraphTexts ==
    {t \in SeqsUpTo(ParagraphChars, MaxNodeLen) :
        Len(t) > 0 /\ t[1] \notin Whitespace /\ t[Len(t)] \notin Whitespace}

Nodes ==
    {[type |-> "code", value |-> v] : v \in SeqsUpTo(CodeChars, MaxNodeLen)}
        \cup {[type |-> "paragraph", value |-> v] : v \in ParagraphTexts}
        \cup {[type |-> "blockquote", value |-> v] :
                  v \in {<<"a">>, <<"a", ".", " ", "a">>}}

\* toString(node)
NodeText(node) == Str(node.value)

\* the line that opens and closes a fenced code block
Fence == "~~~"

\* toMarkdown({ type: "root", children: [node] })
NodeMarkdown(node) ==
    IF node.type = "code"
    THEN Fence \o "\n" \o Str(node.value) \o "\n" \o Fence \o "\n"
    ELSE IF node.type = "blockquote" THEN "> " \o Str(node.value) \o "\n"
    ELSE Str(node.value) \o "\n"

\* the answers countTokens may give for text after the answers in cache
CountWith(cache, text) ==
    IF text \in DOMAIN cache THEN {cache[text]} ELSE countTokens(text)

Remember(cache, text, tokens) == (text :> tokens) @@ cache

\* mutant: the fallback of splitOversizedBlock returns no block
asIsDropped(node, tokens) == <<>>

\* the block made of the node itself: splitRegularNodeIntoBlocks' block and
\* splitOversizedBlock's fallback
asIs(node, tokens) ==
    <<[type |-> node.type, node |-> node, text |-> NodeText(node),
       markdown |-> NodeMarkdown(node), tokens |-> tokens]>>

\* mutant: a segment is cut at any line once it is over the target
cutsAtAnyLine(chunkTokens, line) == chunkTokens > TARGET_TOKENS

\* chunkTokens > TARGET_TOKENS && isEmptyWhenTrimmed(line)
cutsHere(chunkTokens, line) ==
    chunkTokens > TARGET_TOKENS /\ isEmptyWhenTrimmed(line)

createCodeBlockFromChunk(lines, originalNode, tokens) ==
    LET chunkValue == JoinSeqs(lines, <<"\n">>)
        chunkNode == [type |-> "code", value |-> chunkValue]
    IN  [type |-> "code", node |-> chunkNode, text |-> Str(chunkValue),
         markdown |-> NodeMarkdown(chunkNode), tokens |-> tokens]

createParagraphBlockFromSentences(group, originalNode, tokens) ==
    LET chunkText == Str(JoinSeqs(group, <<" ">>))
    IN  [type |-> "paragraph", node |-> originalNode, text |-> chunkText,
         markdown |-> chunkText \o "\n", tokens |-> tokens]

\* the text createCodeBlockFromChunk / createParagraphBlockFromSentences
\* counts for a chunk
ChunkText(node, chunk) ==
    IF node.type = "code" THEN Str(JoinSeqs(chunk, <<"\n">>))
    ELSE Str(JoinSeqs(chunk, <<" ">>))

NoCache == [t \in {} |-> 0]

SplitInit ==
    /\ \E node \in Nodes :
        splitCall = [pc |-> "start", node |-> node, cache |-> NoCache,
                     tokens |-> 0, strategy |-> "none", idx |-> 0,
                     counts |-> <<>>, currentChunk |-> <<>>,
                     currentTokens |-> 0, chunks |-> <<>>, blocks |-> <<>>,
                     outcome |-> "pending", result |-> <<>>]
    /\ SplitRestIdle

\* splitRegularNodeIntoBlocks, tokens <= MAX_TOKENS: one block
ReturnRegularBlock ==
    /\ splitCall.pc = "start"
    /\ \E tokens \in countTokens(NodeText(splitCall.node)) :
        /\ ~(tokens > MAX_TOKENS)
        /\ splitCall' =
            [splitCall EXCEPT
                !.pc = "done", !.tokens = tokens, !.outcome = "fits",
                !.cache = Remember(@, NodeText(splitCall.node), tokens),
                !.result = asIs(splitCall.node, tokens)]
    /\ UNCHANGED splitRest

\* splitOversizedBlock of a node that is neither code nor paragraph
SplitOversizedOther ==
    /\ splitCall.pc = "start"
    /\ splitCall.node.type \notin {"code", "paragraph"}
    /\ \E tokens \in countTokens(NodeText(splitCall.node)) :
        /\ tokens > MAX_TOKENS
        /\ splitCall' =
            [splitCall EXCEPT
                !.pc = "done", !.tokens = tokens, !.outcome = "asIs",
                !.cache = Remember(@, NodeText(splitCall.node), tokens),
                !.result = asIs(splitCall.node, tokens)]
    /\ UNCHANGED splitRest

\* splitOversizedBlock of a code node: trySplitCodeBlock starts
StartSplitCode ==
    /\ splitCall.pc = "start"
    /\ splitCall.node.type = "code"
    /\ \E tokens \in countTokens(NodeText(splitCall.node)) :
        /\ tokens > MAX_TOKENS
        /\ splitCall' =
            [splitCall EXCEPT
                !.pc = "lines", !.tokens = tokens, !.strategy = "code",
                !.cache = Remember(@, NodeText(splitCall.node), tokens)]
    /\ UNCHANGED splitRest

\* one iteration of trySplitCodeBlock's loop
CodeLine ==
    /\ splitCall.pc = "lines"
    /\ splitCall.idx < Len(Lines(splitCall.node.value))
    /\ LET line == Lines(splitCall.node.value)[splitCall.idx + 1]
           pushed == Append(splitCall.currentChunk, line)
           chunkText == Str(JoinSeqs(pushed, <<"\n">>))
       IN  \E chunkTokens \in CountWith(splitCall.cache, chunkText) :
            splitCall' =
                [splitCall EXCEPT
                    !.idx = @ + 1,
                    !.counts = Append(@, chunkTokens),
                    !.cache = Remember(@, chunkText, chunkTokens),
                    !.chunks = IF cutsHere(chunkTokens, line)
                               THEN Append(@, pushed) ELSE @,
                    !.currentChunk = IF cutsHere(chunkTokens, line)
                                     THEN <<>> ELSE pushed]
    /\ UNCHANGED splitRest

\* the chunks after the leftover chunk is added
WithLeftover(call) ==
    IF Len(call.currentChunk) > 0
    THEN Append(call.chunks, call.currentChunk) ELSE call.chunks

\* trySplitCodeBlock after its loop: the leftover chunk, then null (and
\* splitOversizedBlock's fallback) or the creation of the blocks
CodeLoopEnd ==
    /\ splitCall.pc = "lines"
    /\ splitCall.idx = Len(Lines(splitCall.node.value))
    /\ splitCall' =
        IF Len(WithLeftover(splitCall)) <= 1
        THEN [splitCall EXCEPT
                !.pc = "done", !.chunks = WithLeftover(splitCall),
                !.outcome = "null",
                !.result = asIs(splitCall.node, splitCall.tokens)]
        ELSE [splitCall EXCEPT
                !.pc = "create", !.chunks = WithLeftover(splitCall)]
    /\ UNCHANGED splitRest

\* splitOversizedBlock of a paragraph whose text is one sentence:
\* trySplitParagraph returns null at once
SingleSentence ==
    /\ splitCall.pc = "start"
    /\ splitCall.node.type = "paragraph"
    /\ Len(Sentences(splitCall.node.value)) <= 1
    /\ \E tokens \in countTokens(NodeText(splitCall.node)) :
        /\ tokens > MAX_TOKENS
        /\ splitCall' =
            [splitCall EXCEPT
                !.pc = "done", !.tokens = tokens, !.strategy = "paragraph",
                !.outcome = "null",
                !.cache = Remember(@, NodeText(splitCall.node), tokens),
                !.result = asIs(splitCall.node, tokens)]
    /\ UNCHANGED splitRest

\* splitOversizedBlock of a paragraph of several sentences:
\* groupSentencesIntoChunks starts
StartSplitParagraph ==
    /\ splitCall.pc = "start"
    /\ splitCall.node.type = "paragraph"
    /\ ~(Len(Sentences(splitCall.node.value)) <= 1)
    /\ \E tokens \in countTokens(NodeText(splitCall.node)) :
        /\ tokens > MAX_TOKENS
        /\ splitCall' =
            [splitCall EXCEPT
                !.pc = "sentences", !.tokens = tokens,
                !.strategy = "paragraph",
                !.cache = Remember(@, NodeText(splitCall.node), tokens)]
    /\ UNCHANGED splitRest

\* one iteration of groupSentencesIntoChunks' loop
SentenceStep ==
    /\ splitCall.pc = "sentences"
    /\ splitCall.idx < Len(Sentences(splitCall.node.value))
    /\ LET sentence == Sentences(splitCall.node.value)[splitCall.idx + 1]
       IN  \E sentenceTokens \in CountWith(splitCall.cache, Str(sentence)) :
            LET closes == startsNewRun(splitCall.currentTokens,
                                       sentenceTokens, splitCall.currentChunk)
            IN  splitCall' =
                    [splitCall EXCEPT
                        !.idx = @ + 1,
                        !.counts = Append(@, sentenceTokens),
                        !.cache = Remember(@, Str(sentence), sentenceTokens),
                        !.chunks = IF closes
                                   THEN Append(@, splitCall.currentChunk)
                                   ELSE @,
                        !.currentChunk = IF closes THEN <<sentence>>
                                         ELSE Append(@, sentence),
                        !.currentTokens = IF closes THEN sentenceTokens
                                          ELSE @ + sentenceTokens]
    /\ UNCHANGED splitRest

\* trySplitParagraph after groupSentencesIntoChunks returned
SentenceLoopEnd ==
    /\ splitCall.pc = "sentences"
    /\ splitCall.idx = Len(Sentences(splitCall.node.value))
    /\ splitCall' =
        IF Len(WithLeftover(splitCall)) <= 1
        THEN [splitCall EXCEPT
                !.pc = "done", !.chunks = WithLeftover(splitCall),
                !.outcome = "null",
                !.result = asIs(splitCall.node, splitCall.tokens)]
        ELSE [splitCall EXCEPT
                !.pc = "create", !.chunks = WithLeftover(splitCall)]
    /\ UNCHANGED splitRest

\* one iteration of the loop that creates the blocks of the chunks
CreateBlock ==
    /\ splitCall.pc = "create"
    /\ Len(splitCall.blocks) < Len(splitCall.chunks)
    /\ LET chunk == splitCall.chunks[Len(splitCall.blocks) + 1]
           chunkText == ChunkText(splitCall.node, chunk)
       IN  \E tokens \in CountWith(splitCall.cache, chunkText) :
            splitCall' =
                [splitCall EXCEPT
                    !.cache = Remember(@, chunkText, tokens),
                    !.blocks =
                        Append(@,
                            IF splitCall.node.type = "code"
                            THEN createCodeBlockFromChunk(
                                     chunk, splitCall.node, tokens)
                            ELSE createParagraphBlockFromSentences(
                                     chunk, splitCall.node, tokens))]
    /\ UNCHANGED splitRest

\* the strategy returns its blocks and splitOversizedBlock returns them
ReturnBlocks ==
    /\ splitCall.pc = "create"
    /\ Len(splitCall.blocks) = Len(splitCall.chunks)
    /\ splitCall' =
        [splitCall EXCEPT
            !.pc = "done", !.outcome = "blocks", !.result = splitCall.blocks]
    /\ UNCHANGED splitRest

SplitNext ==
    \/ ReturnRegularBlock
    \/ SplitOversizedOther
    \/ StartSplitCode
    \/ CodeLine
    \/ CodeLoopEnd
    \/ SingleSentence
    \/ StartSplitParagraph
    \/ SentenceStep
    \/ SentenceLoopEnd
    \/ CreateBlock
    \/ ReturnBlocks

SpecSplit == SplitInit /\ [][SplitNext]_vars

RECURSIVE ConcatAll(_)
\* the elements of the sequences of a sequence, in order
ConcatAll(seqs) ==
    IF seqs = <<>> THEN <<>> ELSE seqs[1] \o ConcatAll(Tail(seqs))

\* the number of the last line of each of the first chunks
ChunkEnds(chs) == {Len(ConcatAll(SubSeq(chs, 1, k))) : k \in 1..Len(chs)}

\* the last line before line i at which a chunk ends, 0 if there is none
PreviousEnd(chs, i) == SetMax({0} \cup {e \in ChunkEnds(chs) : e < i})

BlockTexts(bs) == [k \in 1..Len(bs) |-> bs[k].text]

\* C21: trySplitCodeBlock partitions the code block's lines into consecutive
\* segments in original order, and joining the segments with newlines gives
\* the original code value; a segment is cut exactly after a line that is
\* blank and at which the running segment's token count exceeds
\* TARGET_TOKENS; the remaining lines form a final segment; with at most one
\* segment the block is reported as unsplittable (null).
C21_CodeSegments ==
    splitCall.pc # "idle" /\ splitCall.strategy = "code" =>
        LET lines == Lines(splitCall.node.value)
            looping == splitCall.pc = "lines"
            chs == splitCall.chunks
        IN  /\ ConcatAll(chs) \o (IF looping THEN splitCall.currentChunk
                                  ELSE <<>>)
                   = SubSeq(lines, 1, splitCall.idx)
            /\ \A k \in 1..Len(chs) : Len(chs[k]) > 0
            /\ \A i \in 1..splitCall.idx :
                LET running == SubSeq(lines, PreviousEnd(chs, i) + 1, i)
                    runningTokens ==
                        splitCall.cache[Str(JoinSeqs(running, <<"\n">>))]
                    cut == /\ runningTokens > TARGET_TOKENS
                           /\ isEmptyWhenTrimmed(lines[i])
                IN  /\ splitCall.counts[i] = runningTokens
                    /\ cut => i \in ChunkEnds(chs)
                    /\ i \in ChunkEnds(chs) =>
                           cut \/ (~looping /\ i = Len(lines))
            /\ ~looping => splitCall.idx = Len(lines)
            /\ splitCall.pc = "done" =>
                /\ splitCall.outcome = "null" <=> Len(chs) <= 1
                /\ splitCall.outcome = "blocks" <=> Len(chs) > 1
                /\ splitCall.outcome = "blocks" =>
                    /\ Len(splitCall.result) = Len(chs)
                    /\ \A k \in 1..Len(chs) :
                        /\ splitCall.result[k].type = "code"
                        /\ splitCall.result[k].node.value
                               = JoinSeqs(chs[k], <<"\n">>)
                        /\ splitCall.result[k].text
                               = Str(JoinSeqs(chs[k], <<"\n">>))
                    /\ Join(BlockTexts(splitCall.result), "\n")
                           = Str(splitCall.node.value)

\* a code block was split in two: its first blank line did not cut (the
\* segment was within the target), its second blank line did, and the
\* remaining line is the final segment
C21_Witness ==
    /\ splitCall.pc = "done"
    /\ splitCall.strategy = "code"
    /\ splitCall.outcome = "blocks"
    /\ splitCall.node.value = <<"\n", "\n", "x">>
    /\ splitCall.chunks = << << <<>>, <<>> >>, << <<"x">> >> >>
    /\ splitCall.counts[1] <= TARGET_TOKENS

\* C22: whenever splitOversizedBlock succeeds in splitting an oversized
\* block, every resulting block has a token count <= TARGET_TOKENS.
C22_SplitBlocksWithinTarget ==
    splitCall.pc = "done" /\ splitCall.outcome = "blocks" =>
        \A k \in 1..Len(splitCall.result) :
            splitCall.result[k].tokens <= TARGET_TOKENS

\* C23: for a node with tokens > MAX_TOKENS that is neither code nor
\* paragraph, or whose strategy yields at most one segment or run,
\* splitOversizedBlock returns exactly one block carrying the original
\* node, text, markdown and token count; the call ends with blocks, never
\* with an error.
C23_UnsplitBlockReturned ==
    splitCall.pc = "done" =>
        /\ Len(splitCall.result) >= 1
        /\ splitCall.outcome \in {"fits", "asIs", "null", "blocks"}
        /\ (/\ splitCall.tokens > MAX_TOKENS
            /\ \/ splitCall.node.type \notin {"code", "paragraph"}
               \/ Len(splitCall.chunks) <= 1)
           => splitCall.result =
                  <<[type |-> splitCall.node.type, node |-> splitCall.node,
                     text |-> NodeText(splitCall.node),
                     markdown |-> NodeMarkdown(splitCall.node),
                     tokens |-> splitCall.tokens]>>

\* an oversized code block with a blank line, whose lines stayed one segment,
\* came back as the original block
C23_Witness ==
    /\ splitCall.pc = "done"
    /\ splitCall.node = [type |-> "code", value |-> <<"x", "\n", "\n", "x">>]
    /\ splitCall.outcome = "null"
    /\ Len(splitCall.chunks) = 1
    /\ splitCall.tokens > MAX_TOKENS
    /\ Len(splitCall.result) = 1
    /\ splitCall.result[1].node = splitCall.node

(***************************************************************************)
(* The database loader: fetchDb (src/App.tsx).                             *)
(*                                                                         *)
(* A promise is a number; dbResultCache is the cached promise's number or  *)
(* Null.  promises[p] is the promise's settlement and fetches[p] what the  *)
(* network answered to the fetch that doFetchDb issued for it.             *)
(***************************************************************************)
MaxFetchCalls == 3

Null == 0

Pending == [status |-> "pending"]
Fulfilled(value) == [status |-> "fulfilled", value |-> value]

\* the response bodies that parse as JSON
FetchBodies == {x \in DbPayloads : Len(x.chunks) <= 1}

\* what fetch(url) and response.json() may deliver
Responses ==
    {[kind |-> "networkFailure"]}
        \cup {[kind |-> "response", ok |-> FALSE, status |-> s,
               body |-> Malformed] : s \in {404, 500}}
        \cup {[kind |-> "response", ok |-> TRUE, status |-> 200,
               body |-> Malformed]}
        \cup {[kind |-> "response", ok |-> TRUE, status |-> 200,
               body |-> x] : x \in FetchBodies}

\* doFetchDb: the settlement of the promise it returns
doFetchDb(response, ctorThrows) ==
    IF response.kind = "networkFailure"
    THEN Fulfilled(ResultError("Failed to fetch database: TypeError"))
    ELSE IF ~response.ok
    THEN Fulfilled(ResultError("HTTP error! status: "
                               \o ToString(response.status)))
    ELSE IF response.body = Malformed
    THEN Fulfilled(ResultError("Failed to fetch database: SyntaxError"))
    ELSE Fulfilled(deserializeChunkDatabase(response.body, ctorThrows))

\* doFetchDb().catch(...): the cache after the promise settled
afterSettle(settlement, cache) ==
    IF settlement.status = "rejected" THEN Null ELSE cache

FetchInit ==
    /\ dbResultCache = Null
    /\ promises = <<>>
    /\ fetches = <<>>
    /\ fetchCalls = <<>>
    /\ FetchRestIdle

\* fetchDb(url) with a cached promise: returns it
FetchDbCached ==
    /\ Len(fetchCalls) < MaxFetchCalls
    /\ dbResultCache # Null
    /\ fetchCalls' = Append(fetchCalls,
                            [returned |-> dbResultCache, fetched |-> FALSE])
    /\ UNCHANGED <<dbResultCache, promises, fetches, fetchRest>>

\* fetchDb(url) without a cached promise: doFetchDb starts and issues the
\* fetch, and the promise is cached and returned
FetchDbNew ==
    /\ Len(fetchCalls) < MaxFetchCalls
    /\ ~(dbResultCache # Null)
    /\ promises' = Append(promises, Pending)
    /\ fetches' = Append(fetches, [kind |-> "inFlight"])
    /\ dbResultCache' = Len(promises) + 1
    /\ fetchCalls' = Append(fetchCalls,
                            [returned |-> Len(promises) + 1, fetched |-> TRUE])
    /\ UNCHANGED fetchRest

\* the network answers the fetch of promise p and doFetchDb runs to its end
Settle(p) ==
    /\ promises[p] = Pending
    /\ \E response \in Responses, ctorThrows \in BOOLEAN :
        /\ fetches' = [fetches EXCEPT ![p] = response]
        /\ promises' = [promises EXCEPT ![p] = doFetchDb(response, ctorThrows)]
        /\ dbResultCache' = afterSettle(doFetchDb(response, ctorThrows),
                                        dbResultCache)
    /\ UNCHANGED <<fetchCalls, fetchRest>>

FetchNext ==
    \/ FetchDbCached
    \/ FetchDbNew
    \/ \E p \in 1..Len(promises) : Settle(p)

SpecFetch == FetchInit /\ [][FetchNext]_vars

\* the loading of promise p failed
LoadFailed(p) ==
    /\ promises[p].status = "fulfilled" /\ isError(promises[p].value)

\* C25: if loading the database fails (HTTP error status, network failure,
\* malformed JSON, or a payload deserializeChunkDatabase rejects), fetchDb
\* clears its cached promise: the cache never holds a promise whose load
\* failed, so a later fetchDb call issues a new fetch.
C25_FailedLoadClearsCache ==
    \A p \in 1..Len(promises) : LoadFailed(p) => dbResultCache # p

(***************************************************************************)
(* The search form: SearchForm, handleSearchFormSubmit (src/App.tsx).      *)
(*                                                                         *)
(* uiEvents lists the user's submits and clears in order; a submit is      *)
(* settled once its search call returned and the handler went on.          *)
(***************************************************************************)
MaxUiEvents == 3

\* the database ProfessorContent was given
UiDb ==
    [chunks |-> [i \in 1..2 |-> SearchChunk(i)],
     embeddings |-> Matrix(<< <<10, 0>>, <<0, 10>> >>, 2),
     metadata |-> [embeddingModel |-> MODEL_NAME, dimension |-> 2,
                   createdAt |-> "now"]]

\* ChunkDB.search(db, pipeline, query): the Result it resolves to
search(database, query) ==
    LET embeddedQuery == extractFeatures(query)
        queryTranspose == transpose(embeddedQuery)
    IN  IF ~canMultiply(database.embeddings.dims, queryTranspose.dims)
        THEN ResultError("Failed to compute similarity")
        ELSE LET similarityData ==
                     FirstRow(transpose(matmul(database.embeddings,
                                               queryTranspose)))
             IN  ResultOk(BestOf(database, similarityData,
                                 findBestResults(similarityData)))

UiInit ==
    /\ searchResult = Undefined
    /\ uiEvents = <<>>
    /\ UiRestIdle

\* the form is submitted: the handler reads the query and awaits search
Submit ==
    /\ Len(uiEvents) < MaxUiEvents
    /\ \E searchQuery \in Queries :
        uiEvents' = Append(uiEvents,
                           [type |-> "submit", searchQuery |-> searchQuery,
                            settled |-> FALSE])
    /\ UNCHANGED <<searchResult, uiRest>>

\* the search of submit i returns and the handler sets the state
SearchReturns(i) ==
    /\ uiEvents[i].type = "submit"
    /\ ~uiEvents[i].settled
    /\ searchResult' = search(UiDb, uiEvents[i].searchQuery)
    /\ uiEvents' = [uiEvents EXCEPT ![i].settled = TRUE]
    /\ UNCHANGED uiRest

\* the Clear button's onClick
Clear ==
    /\ Len(uiEvents) < MaxUiEvents
    /\ searchResult' = Undefined
    /\ uiEvents' = Append(uiEvents, [type |-> "clear", settled |-> TRUE])
    /\ UNCHANGED uiRest

UiNext ==
    \/ Submit
    \/ \E i \in 1..Len(uiEvents) : SearchReturns(i)
    \/ Clear

SpecUi == UiInit /\ [][UiNext]_vars

\* C27: when the searches the user submitted have all completed, in any
\* order, the result held in the UI state is that of the latest submit: a
\* superseded query's result never replaces a newer one's, and no result
\* reappears after the user pressed Clear.
C27_LatestQueryWins ==
    (/\ Len(uiEvents) >= 1
     /\ \A i \in 1..Len(uiEvents) : uiEvents[i].settled)
    => searchResult =
           IF uiEvents[Len(uiEvents)].type = "clear" THEN Undefined
           ELSE search(UiDb, uiEvents[Len(uiEvents)].searchQuery)

(***************************************************************************)
(* The download progress publisher: shared/progress.ts.                    *)
(*                                                                         *)
(* Every ProgressState object is made together with its own Map, so the    *)
(* objects are numbered and fileMaps[n] is the content of the Map that     *)
(* object n refers to; progressState is the number of the current object.  *)
(* A Map's content is the set of its entries.  Percentages are integers in *)
(* hundredths of a percent, rounded percentages in tenths.                 *)
(***************************************************************************)
MaxProgressEvents == 2

ProgressFiles == {"model.onnx", "tokenizer.json"}
Listeners == {"bar", "label"}
MiB == 1024 * 1024

\* the events the model loader reports; loaded follows from progress
ProgressInfos ==
    {[status |-> "progress", file |-> f, progress |-> p,
      loaded |-> ((2 * MiB) \div 10000) * p, total |-> 2 * MiB] :
        f \in ProgressFiles, p \in {1234, 1236, 1238}}
      \cup {[status |-> s, file |-> f, progress |-> 0, loaded |-> 0,
             total |-> 0] : s \in {"initiate", "done"}, f \in ProgressFiles}

\* round(x, 0.1), x in hundredths and the result in tenths
round(x) == Round(x, 10)

\* (bytes / (1024 * 1024)).toFixed(2)
ToFixed2(bytes) ==
    LET hundredths == Round(bytes * 100, MiB)
        cents == hundredths % 100
    IN  ToString(hundredths \div 100) \o "."
            \o (IF cents < 10 THEN "0" ELSE "") \o ToString(cents)

\* map.get(file)?.percent ?? -1
LastPercent(map, file) ==
    IF \E e \in map : e.file = file
    THEN (CHOOSE e \in map : e.file = file).percent ELSE -1

\* map.set(file, value)
MapSet(map, file, value) ==
    {e \in map : e.file # file}
        \cup {[file |-> file, percent |-> value.percent,
               loadedMB |-> value.loadedMB, totalMB |-> value.totalMB]}

\* the early returns of handleProgress
ignored(info) ==
    \/ info.status # "progress"
    \/ round(info.progress) = LastPercent(fileMaps[progressState], info.file)

ProgressInit ==
    /\ progressState = 1
    /\ fileMaps = <<{}>>
    /\ progressListeners = <<>>
    /\ returnedSnapshots = {}
    /\ progressLog = <<>>
    /\ ProgressRestIdle

\* handleProgress returns early
IgnoreProgress ==
    /\ Len(progressLog) < MaxProgressEvents
    /\ \E info \in ProgressInfos :
        /\ ignored(info)
        /\ progressLog' = Append(progressLog,
                                 [info |-> info, called |-> <<>>,
                                  lastProgress |->
                                      LastPercent(fileMaps[progressState],
                                                  info.file),
                                  object |-> progressState])
    /\ UNCHANGED <<progressState, fileMaps, progressListeners,
                   returnedSnapshots, progressRest>>

\* handleProgress sets the file's entry in the current Map, then
\* notifyProgressChanged makes a new object with a copy of the Map and calls
\* the listeners
AcceptProgress ==
    /\ Len(progressLog) < MaxProgressEvents
    /\ \E info \in ProgressInfos :
        /\ ~ignored(info)
        /\ LET updated ==
                   MapSet(fileMaps[progressState], info.file,
                          [percent |-> round(info.progress),
                           loadedMB |-> ToFixed2(info.loaded),
                           totalMB |-> ToFixed2(info.total)])
           IN  /\ fileMaps' = Append([fileMaps EXCEPT ![progressState] = updated],
                                     updated)
               /\ progressState' = Len(fileMaps) + 1
               /\ progressLog' = Append(progressLog,
                                        [info |-> info,
                                         called |-> progressListeners,
                                         lastProgress |->
                                             LastPercent(
                                                 fileMaps[progressState],
                                                 info.file),
                                         object |-> Len(fileMaps) + 1])
    /\ UNCHANGED <<progressListeners, returnedSnapshots, progressRest>>

\* subscribeCallback(listener)
Subscribe(listener) ==
    /\ \A i \in 1..Len(progressListeners) : progressListeners[i] # listener
    /\ progressListeners' = Append(progressListeners, listener)
    /\ UNCHANGED <<progressState, fileMaps, returnedSnapshots, progressLog,
                   progressRest>>

\* the cleanup function subscribeCallback returned for listener
Unsubscribe(listener) ==
    /\ \E i \in 1..Len(progressListeners) : progressListeners[i] = listener
    /\ progressListeners' = SelectSeq(progressListeners,
                                      LAMBDA l : l # listener)
    /\ UNCHANGED <<progressState, fileMaps, returnedSnapshots, progressLog,
                   progressRest>>

\* getSnapshot(): the caller holds the object and reads its files; published
\* is the number of notifications made before the call
GetSnapshot ==
    /\ returnedSnapshots' =
           returnedSnapshots
               \cup {[object |-> progressState,
                      files |-> fileMaps[progressState],
                      published |-> progressState - 1]}
    /\ UNCHANGED <<progressState, fileMaps, progressListeners, progressLog,
                   progressRest>>

ProgressNext ==
    \/ IgnoreProgress
    \/ AcceptProgress
    \/ \E listener \in Listeners : Subscribe(listener)
    \/ \E listener \in Listeners : Unsubscribe(listener)
    \/ GetSnapshot

SpecProgress == ProgressInit /\ [][ProgressNext]_vars

\* the number of objects published by the first n events
Published(n) == IF n = 0 THEN 0 ELSE progressLog[n].object - 1

\* C28: a snapshot getSnapshot returned is never modified afterwards: every
\* accepted progress event publishes a new object with a new Map and leaves
\* the snapshots returned before, their files included, unchanged; between
\* two notifications getSnapshot returns the identical object; listeners
\* are notified only for events of status "progress" whose rounded percent
\* differs from the file's last recorded percent.
C28_SnapshotsImmutable ==
    /\ \A s \in returnedSnapshots : fileMaps[s.object] = s.files
    /\ \A s, t \in returnedSnapshots :
           s.published = t.published => s.object = t.object
    /\ \A n \in 1..Len(progressLog) :
           progressLog[n].called # <<>> =>
               /\ progressLog[n].info.status = "progress"
               /\ round(progressLog[n].info.progress)
                      # progressLog[n].lastProgress
               /\ Published(n) = Published(n - 1) + 1

\* C11: every ChunkDatabase that create or deserializeChunkDatabase returns
\* with ok satisfies the database invariant: the embeddings are a matrix
\* whose row count equals the number of chunks, whose column count D is
\* positive, and metadata.dimension equals D.
C11_DatabaseInvariant ==
    (/\ dbCall.op \in {"create", "deserializeChunkDatabase"}
     /\ dbResult.ok)
        => LET db == dbResult.value
           IN  /\ Len(db.embeddings.dims) = 2
               /\ db.embeddings.dims[1] = Num(Len(db.chunks))
               /\ db.embeddings.dims[2] > 0
               /\ db.metadata.dimension = db.embeddings.dims[2]

\* C12: serialization round-trips: for any float32 2-D tensor,
\* deserializeTensor(serializeTensor(t)) succeeds and yields a tensor with
\* the same type, dims and data; and for any valid ChunkDatabase,
\* deserializing its serialized form succeeds and reproduces an equal chunk
\* list, embedding matrix and metadata.
C12_RoundTrip ==
    /\ dbCall.op = "roundTripTensor" =>
            /\ dbResult.ok
            /\ dbResult.value = dbCall.tensor
    /\ dbCall.op = "roundTripDatabase" =>
            /\ dbResult.ok
            /\ dbResult.value.chunks = dbCall.db.chunks
            /\ dbResult.value.embeddings = dbCall.db.embeddings
            /\ dbResult.value.metadata = dbCall.db.metadata

====
